---- MODULE Spec2Model ----
(***************************************************************************)
(* termdev: the dual live-tree engine (log store and network store), the   *)
(* flattener, the viewport/follow controller and the lazy expansion        *)
(* controller, as a state machine.                                         *)
(*                                                                         *)
(* Strings are sequences of tokens (a token is an atomic piece of text);   *)
(* concatenation is \o, and substring search works on token boundaries.    *)
(* Every action is one event handler followed by React's re-render and     *)
(* effect passes until nothing changes (Settle).                           *)
(***************************************************************************)
EXTENDS Integers, Sequences, FiniteSets, TLC

VARIABLES
    logTree, followTail, logScrollTop, selectedLogNodeId,
    logSearchOpen, logSearchQuery, logNextNodeId, logIsExpanding, logFetch,
    netTree, followNetTail, netScrollTop, selectedNetNodeId,
    netSearchOpen, netSearchQuery, netNextNodeId, netIsExpanding, netFetch,
    netById,
    focus, rightTab, evalOpen,
    clientRef, attachedIndex, isAttachingRef, connecting,
    traffic, now,
    lastOp, appended

logVars == <<logTree, followTail, logScrollTop, selectedLogNodeId,
             logSearchOpen, logSearchQuery, logNextNodeId, logIsExpanding, logFetch>>
netVars == <<netTree, followNetTail, netScrollTop, selectedNetNodeId,
             netSearchOpen, netSearchQuery, netNextNodeId, netIsExpanding, netFetch,
             netById>>
uiVars == <<focus, rightTab, evalOpen>>
\* the session: the client held, the target shown as attached, the guard of
\* attachByIndex and the target an attach is connecting to (the text of the
\* status line is not part of the model)
sessionVars == <<clientRef, attachedIndex, isAttachingRef, connecting>>
vars == <<logVars, netVars, uiVars, sessionVars, traffic, now, lastOp, appended>>

-----------------------------------------------------------------------------
(* Bounds of the model *)

\* cap of the log store (5000 in the program, scaled down)
LOG_MAX_LINES == 2
\* cap of the network store (1500 in the program, scaled down)
NET_MAX_ITEMS == 1
\* smallest terminal height the layout assumes (12 in the program, scaled down)
MIN_ROWS == 10
\* largest value of the log store's node id counter
MaxLogId == 3
\* largest value of the log store's node id counter under call traffic
MaxCallId == 5
\* largest value of the network store's node id counter
MaxNetId == 10
\* largest value of the network id counter while one response body is re-opened
MaxBodyId == 17
\* number of request nodes the network store creates between two clears
MaxNetRoots == 2
\* number of request nodes created between two clears while evictions are watched
MaxEvictRoots == 3
\* largest value of the log store's node id counter while the session attaches
\* and detaches
MaxSessionId == 4
\* number of targets the target list holds
NumTargets == 2
\* number of distinct request ids the protocol sends
MaxRid == 2
\* largest value of the wall clock (Date.now())
MaxNow == 1

HEADER_HEIGHT == 1
FOOTER_HEIGHT == 1
PROPERTY_LIMIT == 80
HEADER_LIMIT == 120
BODY_LINE_LIMIT == 300

-----------------------------------------------------------------------------
(* Small helpers *)

Max(a, b) == IF a >= b THEN a ELSE b
Min(a, b) == IF a <= b THEN a ELSE b

clamp(n, lo, hi) == Max(lo, Min(hi, n))

\* a slice that keeps the first `k` elements instead (s.slice(0, k))
FirstN(s, k) == IF Len(s) > k THEN SubSeq(s, 1, k) ELSE s

\* the last `k` elements of s (s.slice(s.length - k))
LastN(s, k) == IF Len(s) > k THEN SubSeq(s, Len(s) - k + 1, Len(s)) ELSE s

LowerTok(t) ==
    CASE t = "A" -> "a"
      [] t = "B" -> "b"
      [] t = "GET" -> "get"
      [] t = "Needle" -> "needle"
      [] OTHER -> t

\* String.prototype.toLowerCase
toLowerCase(s) == [i \in 1..Len(s) |-> LowerTok(s[i])]

IsSpace(t) == t = " " \/ t = "\n"

RECURSIVE trimStart(_)
trimStart(s) == IF s # <<>> /\ IsSpace(s[1]) THEN trimStart(Tail(s)) ELSE s

RECURSIVE trimEnd(_)
trimEnd(s) ==
    IF s # <<>> /\ IsSpace(s[Len(s)]) THEN trimEnd(SubSeq(s, 1, Len(s) - 1)) ELSE s

\* String.prototype.trim
trim(s) == trimEnd(trimStart(s))

\* String.prototype.includes
includes(hay, q) ==
    \E i \in 0..(Len(hay) - Len(q)) : SubSeq(hay, i + 1, i + Len(q)) = q

\* Array.prototype.join(" ") over strings
RECURSIVE joinSpace(_)
joinSpace(ss) ==
    IF ss = <<>> THEN <<>>
    ELSE IF Len(ss) = 1 THEN ss[1]
    ELSE ss[1] \o <<" ">> \o joinSpace(Tail(ss))

\* String(s).split("\n")
RECURSIVE splitLines(_)
splitLines(s) ==
    IF \A i \in 1..Len(s) : s[i] # "\n" THEN <<s>>
    ELSE LET k == CHOOSE i \in 1..Len(s) :
                      s[i] = "\n" /\ \A j \in 1..(i - 1) : s[j] # "\n"
         IN <<SubSeq(s, 1, k - 1)>> \o splitLines(SubSeq(s, k + 1, Len(s)))

-----------------------------------------------------------------------------
(* Node ids.  `n${k}`, `${entry}:arg:${i}`, `prop_${k}_${Date.now()}`,      *)
(* `net:${rid}`, `net:${rid}:<part>`, `net_n${k}`; null is NoId.            *)

NoId == [t |-> "null", a |-> 0, b |-> 0]
\* attachedIndex is null
NoTarget == -1
NId(k) == [t |-> "n", a |-> k, b |-> 0]
ArgId(nodeId, i) == [t |-> "n:arg", a |-> nodeId.a, b |-> i]
PropId(k, time) == [t |-> "prop", a |-> k, b |-> time]
NetId(rid) == [t |-> "net", a |-> rid, b |-> 0]
NetPartId(rid, part) == [t |-> part, a |-> rid, b |-> 0]
NetNId(k) == [t |-> "net_n", a |-> k, b |-> 0]

-----------------------------------------------------------------------------
(* Remote objects and nodes *)

NoObject == [defined |-> FALSE, objectId |-> "", description |-> <<>>]
RemoteObject(objectId, description) ==
    [defined |-> TRUE, objectId |-> objectId, description |-> description]

NoNet == [requestId |-> 0, role |-> "none", which |-> "none"]
NetInfo(rid, role, which) == [requestId |-> rid, role |-> role, which |-> which]

\* a LogNode with every optional field absent
Node(id, kind) ==
    [id |-> id, kind |-> kind, label |-> <<>>, text |-> <<>>, args |-> <<>>,
     object |-> NoObject, name |-> <<>>, value |-> NoObject,
     expanded |-> FALSE, loading |-> FALSE, children |-> <<>>, net |-> NoNet]

TextNode(id, text) == [Node(id, "text") EXCEPT !.text = text]
MetaNode(id, text) == [Node(id, "meta") EXCEPT !.text = text]

isObjectExpandable(obj) == obj.defined /\ obj.objectId # ""

\* the preview text of a remote value
formatRemoteObject(obj) == obj.description

formatArgs(args) == joinSpace([i \in 1..Len(args) |-> formatRemoteObject(args[i])])

-----------------------------------------------------------------------------
(* Tree functions *)

\* the `expandable` flag flattenLogTree computes for a node
flatExpandable(n) ==
    CASE n.kind = "entry" -> (Len(n.args) > 0) \/ (Len(n.children) > 0) \/ n.loading
      [] n.kind = "arg" -> isObjectExpandable(n.object)
      [] n.kind = "prop" -> isObjectExpandable(n.value)
      [] OTHER -> FALSE

\* the text flattenLogTree renders for a node
flatText(n) ==
    CASE n.kind = "text" -> n.text
      [] n.kind = "meta" -> n.text
      [] n.kind = "entry" ->
            LET preview == formatArgs(n.args)
            IN IF preview # <<>> THEN n.label \o <<" ">> \o preview ELSE n.label
      [] n.kind = "arg" ->
            IF n.object.defined THEN formatRemoteObject(n.object) ELSE <<>>
      [] n.kind = "prop" ->
            n.name \o <<":", " ">> \o
            (IF n.value.defined THEN formatRemoteObject(n.value) ELSE <<"undefined">>)
      [] OTHER -> n.text

\* a walk that emits the children of collapsed nodes too
RECURSIVE flattenLogTreeAll(_, _, _)
flattenLogTreeAll(nodes, parentId, indent) ==
    IF nodes = <<>> THEN <<>>
    ELSE LET n == Head(nodes)
             line == [nodeId |-> n.id, parentId |-> parentId, indent |-> indent,
                      text |-> flatText(n), expandable |-> flatExpandable(n),
                      expanded |-> n.expanded]
         IN <<line>>
            \o (IF Len(n.children) > 0
                THEN flattenLogTreeAll(n.children, n.id, indent + 1)
                ELSE <<>>)
            \o flattenLogTreeAll(Tail(nodes), parentId, indent)

RECURSIVE flattenLogTree(_, _, _)
flattenLogTree(nodes, parentId, indent) ==
    IF nodes = <<>> THEN <<>>
    ELSE LET n == Head(nodes)
             line == [nodeId |-> n.id, parentId |-> parentId, indent |-> indent,
                      text |-> flatText(n), expandable |-> flatExpandable(n),
                      expanded |-> n.expanded]
         IN <<line>>
            \o (IF n.expanded /\ Len(n.children) > 0
                THEN flattenLogTree(n.children, n.id, indent + 1)
                ELSE <<>>)
            \o flattenLogTree(Tail(nodes), parentId, indent)

RECURSIVE hasNodeById(_, _)
hasNodeById(nodes, id) ==
    \E i \in 1..Len(nodes) : nodes[i].id = id \/ hasNodeById(nodes[i].children, id)

\* findNodeById: the first node with this id in depth-first pre-order
\* (only applied where hasNodeById holds)
RECURSIVE findNodeById(_, _)
findNodeById(nodes, id) ==
    LET n == Head(nodes)
    IN IF n.id = id THEN n
       ELSE IF hasNodeById(n.children, id) THEN findNodeById(n.children, id)
       ELSE findNodeById(Tail(nodes), id)

\* the element of a one-element set
Only(S) == CHOOSE x \in S : TRUE

\* updateNodeById.  updater(n, c) is [node, counter]: the node that replaces n
\* and the store's id counter after the updater ran with the counter at c.
\* The map visits siblings left to right and a node's children before its next
\* sibling; a node with this id is replaced and not descended into.
updateNodeById(nodes, id, updater(_, _), counter) ==
    LET RECURSIVE go(_, _)
        go(ns, c) ==
            IF ns = <<>> THEN [tree |-> <<>>, counter |-> c]
            ELSE LET withChildren(n, rc) ==
                         [node |-> [n EXCEPT !.children = rc.tree], counter |-> rc.counter]
                     one(n) ==
                         IF n.id = id THEN updater(n, c)
                         ELSE IF Len(n.children) > 0
                              THEN Only({withChildren(n, rc) : rc \in {go(n.children, c)}})
                              ELSE [node |-> n, counter |-> c]
                     join(r, rest) ==
                         [tree |-> <<r.node>> \o rest.tree, counter |-> rest.counter]
                     after(r) == Only({join(r, rest) : rest \in {go(Tail(ns), r.counter)}})
                 IN Only({after(r) : r \in {one(n) : n \in {Head(ns)}}})
    IN go(nodes, counter)

-----------------------------------------------------------------------------
(* Flattened views and the viewport.  A store's view state is the record    *)
(* [tree, query, sel, top, follow]; ui is [focus, rightTab, evalOpen].      *)

\* a view that skips the root filter
unfilteredLogTree(tree, query) == tree

\* a filter under which a whitespace-only query matches no root
filteredLogTreeBlankHides(tree, query) ==
    LET q == toLowerCase(trim(query))
        keep(n) ==
            LET hay == toLowerCase(n.label \o <<" ">> \o n.text)
            IN IF n.kind = "entry" /\ includes(toLowerCase(formatArgs(n.args)), q)
               THEN TRUE
               ELSE includes(hay, q)
    IN IF query = <<>> THEN tree
       ELSE IF q = <<>> THEN <<>>
       ELSE SelectSeq(tree, keep)

\* useLogTree: filteredLogTree
filteredLogTree(tree, query) ==
    LET q == toLowerCase(trim(query))
        keep(n) ==
            LET hay == toLowerCase(n.label \o <<" ">> \o n.text)
            IN IF n.kind = "entry" /\ includes(toLowerCase(formatArgs(n.args)), q)
               THEN TRUE
               ELSE includes(hay, q)
    IN IF q = <<>> THEN tree ELSE SelectSeq(tree, keep)

\* useNetTree: filteredNetTree
filteredNetTree(tree, query) ==
    LET q == toLowerCase(trim(query))
        keep(n) == includes(toLowerCase(n.label \o <<" ">> \o n.text), q)
    IN IF q = <<>> THEN tree ELSE SelectSeq(tree, keep)

\* a flattening that reads the scroll position and yields the lines from it on
FlatFromTop(store, st) ==
    LET all == IF store = "log"
               THEN flattenLogTree(filteredLogTree(st.tree, st.query), NoId, 0)
               ELSE flattenLogTree(filteredNetTree(st.tree, st.query), NoId, 0)
    IN IF st.top < Len(all) THEN SubSeq(all, st.top + 1, Len(all)) ELSE all

\* flatLogs / flatNet of a view state
Flat(store, st) ==
    IF store = "log"
    THEN flattenLogTree(filteredLogTree(st.tree, st.query), NoId, 0)
    ELSE flattenLogTree(filteredNetTree(st.tree, st.query), NoId, 0)

\* flat.findIndex((l) => l.nodeId === id), 0-based, -1 when absent
findIndex(flat, id) ==
    IF \E i \in 1..Len(flat) : flat[i].nodeId = id
    THEN (CHOOSE i \in 1..Len(flat) :
              flat[i].nodeId = id /\ \A j \in 1..(i - 1) : flat[j].nodeId # id) - 1
    ELSE -1

\* a selection that is not in the view resolves to the first line
selectedIndexFirst(flat, sel) ==
    IF Len(flat) = 0 THEN -1
    ELSE IF sel = NoId THEN Len(flat) - 1
    ELSE LET idx == findIndex(flat, sel)
         IN IF idx >= 0 THEN idx ELSE 0

\* selectedLogIndex / selectedNetIndex (0-based, -1 when the view is empty)
selectedIndex(flat, sel) ==
    IF Len(flat) = 0 THEN -1
    ELSE IF sel = NoId THEN Len(flat) - 1
    ELSE LET idx == findIndex(flat, sel)
         IN IF idx >= 0 THEN idx ELSE Len(flat) - 1

\* the terminal is no taller than the smallest height the layout assumes
TerminalRows == MIN_ROWS

\* App: visibleLogLines
visibleLogLines(ui) ==
    LET safeRows == Max(MIN_ROWS, TerminalRows)
        mainHeight == Max(1, safeRows - HEADER_HEIGHT - FOOTER_HEIGHT)
        panelInnerHeight == Max(3, mainHeight - 2)
        rightReserved == IF ui.evalOpen THEN 2 ELSE 1
    IN Max(3, panelInnerHeight - 1 - rightReserved)

\* a follow effect that scrolls to length - visible lines without the floor at 0
FollowEffectNoFloor(flat, st, vis) ==
    IF Len(flat) = 0 THEN [st EXCEPT !.sel = NoId, !.top = 0]
    ELSE IF st.follow
         THEN [st EXCEPT !.sel = flat[Len(flat)].nodeId, !.top = Len(flat) - vis]
         ELSE [st EXCEPT !.sel = IF st.sel = NoId THEN flat[Len(flat)].nodeId ELSE st.sel,
                         !.top = clamp(st.top, 0, Len(flat) - vis)]

\* the follow/selection effect of useLogTree and useNetTree
FollowEffect(flat, st, vis) ==
    IF Len(flat) = 0 THEN [st EXCEPT !.sel = NoId, !.top = 0]
    ELSE IF st.follow
         THEN [st EXCEPT !.sel = flat[Len(flat)].nodeId,
                         !.top = Max(0, Len(flat) - vis)]
         ELSE [st EXCEPT !.sel = IF st.sel = NoId THEN flat[Len(flat)].nodeId ELSE st.sel,
                         !.top = clamp(st.top, 0, Max(0, Len(flat) - vis))]

\* the search effect of useLogTree and useNetTree
SearchEffect(query, st) ==
    IF trim(query) # <<>> THEN [st EXCEPT !.follow = FALSE] ELSE st

\* App: the scroll-into-view effect of one tab; flat and selIdx are the
\* values of the render the effect closes over, top is the queued scrollTop
ScrollEffect(store, flat, selIdx, vis, ui, top) ==
    IF ui.focus # "right" \/ ui.rightTab # (IF store = "log" THEN "logs" ELSE "network")
    THEN top
    ELSE IF Len(flat) = 0 \/ selIdx < 0 THEN top
    ELSE LET maxTop == Max(0, Len(flat) - vis)
             t0 == clamp(top, 0, maxTop)
             t1 == IF selIdx < t0 THEN selIdx ELSE t0
             t2 == IF selIdx >= t1 + vis THEN selIdx - vis + 1 ELSE t1
         IN t2

\* the dependency arrays of the three effects for one render
Deps(store, st, ui) ==
    LET flat == Flat(store, st)
        vis == visibleLogLines(ui)
    IN [follow |-> <<Len(flat), st.follow, vis, st.sel>>,
        search |-> st.query,
        scroll |-> <<ui.focus, ui.rightTab, selectedIndex(flat, st.sel), Len(flat), vis>>]

\* number of render passes after which a handler's updates have settled
RenderPasses == 4

\* One render of state st whose previous render had dependencies prev: the
\* effects whose dependencies changed run against this render's values, their
\* state updates are applied in order, and the result is rendered again.
\* The render's values (flat, vis, d) and its result are computed once each.
RECURSIVE Settle(_, _, _, _, _)
Settle(store, prev, st, ui, fuel) ==
    LET follow(flat, vis, d) ==
            IF d.follow # prev.follow THEN FollowEffect(flat, st, vis) ELSE st
        search(d, s1) ==
            IF d.search # prev.search THEN SearchEffect(st.query, s1) ELSE s1
        scroll(flat, vis, d, s2) ==
            IF d.scroll # prev.scroll
            THEN [s2 EXCEPT !.top = ScrollEffect(store, flat, selectedIndex(flat, st.sel),
                                                 vis, ui, s2.top)]
            ELSE s2
        effects(flat, vis, d) ==
            Only({scroll(flat, vis, d, s2) :
                     s2 \in {search(d, s1) : s1 \in {follow(flat, vis, d)}}})
        again(d, s3) ==
            IF s3 = st \/ fuel = 0 THEN s3 ELSE Settle(store, d, s3, ui, fuel - 1)
        render(flat, vis, d) == Only({again(d, s3) : s3 \in {effects(flat, vis, d)}})
    IN Only({render(flat, visibleLogLines(ui), d) :
                flat \in {Flat(store, st)}, d \in {Deps(store, st, ui)}})

-----------------------------------------------------------------------------
(* The state as records, and the commit of a handler's updates *)

LogSt == [tree |-> logTree, query |-> logSearchQuery, sel |-> selectedLogNodeId,
          top |-> logScrollTop, follow |-> followTail]
NetSt == [tree |-> netTree, query |-> netSearchQuery, sel |-> selectedNetNodeId,
          top |-> netScrollTop, follow |-> followNetTail]
Ui == [focus |-> focus, rightTab |-> rightTab, evalOpen |-> evalOpen]

flatLogs == Flat("log", LogSt)
flatNet == Flat("net", NetSt)
selectedLogIndex == selectedIndex(flatLogs, selectedLogNodeId)
selectedNetIndex == selectedIndex(flatNet, selectedNetNodeId)

SetLog(st) ==
    /\ logTree' = st.tree
    /\ logSearchQuery' = st.query
    /\ selectedLogNodeId' = st.sel
    /\ logScrollTop' = st.top
    /\ followTail' = st.follow

SetNet(st) ==
    /\ netTree' = st.tree
    /\ netSearchQuery' = st.query
    /\ selectedNetNodeId' = st.sel
    /\ netScrollTop' = st.top
    /\ followNetTail' = st.follow

SetUi(ui) ==
    /\ focus' = ui.focus
    /\ rightTab' = ui.rightTab
    /\ evalOpen' = ui.evalOpen

\* the handler's updates (log, net, ui) are rendered until they settle
Commit(log, net, ui) ==
    /\ \E s \in {Settle("log", Deps("log", LogSt, Ui), log, ui, RenderPasses)} : SetLog(s)
    /\ \E s \in {Settle("net", Deps("net", NetSt, Ui), net, ui, RenderPasses)} : SetNet(s)
    /\ SetUi(ui)

CommitLog(log) ==
    /\ \E s \in {Settle("log", Deps("log", LogSt, Ui), log, Ui, RenderPasses)} : SetLog(s)
    /\ UNCHANGED <<netTree, netSearchQuery, selectedNetNodeId, netScrollTop,
                   followNetTail, uiVars>>

CommitNet(net) ==
    /\ \E s \in {Settle("net", Deps("net", NetSt, Ui), net, Ui, RenderPasses)} : SetNet(s)
    /\ UNCHANGED <<logTree, logSearchQuery, selectedLogNodeId, logScrollTop,
                   followTail, uiVars>>

\* a fetch a toggle starts (active) or does not start; logFetch and netFetch are
\* the sets of fetches that were started and have not completed
NoFetch == [active |-> FALSE, nodeId |-> NoId, key |-> "", rid |-> 0]

\* the last handler that ran, as far as the properties tell handlers apart: an
\* append of root nodes, a toggle (dropped by the in-flight guard or not, starting
\* a fetch or not), a region collapse, a key of the eval prompt, or any other
\* handler; where the session attaches and detaches, also the completion of a
\* fetch
NoOp == [op |-> "none", store |-> "none", dropped |-> FALSE, fetched |-> FALSE]
Op(op, store) ==
    IF op \in {"append", "toggle", "collapse", "eval"} THEN [NoOp EXCEPT !.op = op, !.store = store]
    ELSE IF traffic = "session" /\ op \in {"resolved", "rejected"}
    THEN [NoOp EXCEPT !.op = op, !.store = store]
    ELSE [NoOp EXCEPT !.op = "other"]

-----------------------------------------------------------------------------
(* Log store *)

\* the texts and arguments the protocol delivers
Obj1 == RemoteObject("o1", <<"Object">>)
Obj2 == RemoteObject("o2", <<"Array">>)
Prim == RemoteObject("", <<"b">>)
TextLines == {<<"a">>, <<"B", "\n", "c">>}
EntryLabels == {<<"alpha">>}
EntryArgs == {<<Obj1>>, <<Obj1, Prim>>}
\* the arguments of the console calls of a target that logs objects
CallArgs == {<<Obj1>>, <<Prim>>, <<Obj1, Obj2>>}
\* what Runtime.getProperties answers, after the filter and the sort
PropertyLists ==
    {<<>>, <<[name |-> <<"B">>, value |-> Obj2]>>}

\* appendTextLog without the cap slice
appendTextLogUncapped(tree, counter, line) ==
    [tree |-> tree \o [i \in 1..Len(splitLines(line)) |->
                          TextNode(NId(counter + i), splitLines(line)[i])],
     counter |-> counter + Len(splitLines(line)),
     ids |-> [i \in 1..Len(splitLines(line)) |-> NId(counter + i)]]

\* appendTextLog, as [tree, counter, ids]
appendTextLog(tree, counter, line) ==
    LET newLines == splitLines(line)
        nodes == [i \in 1..Len(newLines) |-> TextNode(NId(counter + i), newLines[i])]
        next == tree \o nodes
    IN [tree |-> IF Len(next) > LOG_MAX_LINES THEN LastN(next, LOG_MAX_LINES) ELSE next,
        counter |-> counter + Len(newLines),
        ids |-> [i \in 1..Len(nodes) |-> nodes[i].id]]

\* appendEntryLog, as [tree, counter, ids]
appendEntryLog(tree, counter, label, args) ==
    LET id == NId(counter + 1)
        next == tree \o <<[Node(id, "entry") EXCEPT !.label = label, !.args = args]>>
    IN [tree |-> IF Len(next) > LOG_MAX_LINES THEN LastN(next, LOG_MAX_LINES) ELSE next,
        counter |-> counter + 1,
        ids |-> <<id>>]

\* the cap of the log store's id counter for the traffic of the session
LogIdBound ==
    IF traffic = "calls" THEN MaxCallId
    ELSE IF traffic = "session" THEN MaxSessionId ELSE MaxLogId

\* onTextLog / a hint / an eval echo: a text arrives
AppendTextLog(line) ==
    /\ logNextNodeId + Len(splitLines(line)) <= LogIdBound
    /\ \E r \in {appendTextLog(logTree, logNextNodeId, line)} :
          /\ CommitLog([LogSt EXCEPT !.tree = r.tree])
          /\ logNextNodeId' = r.counter
          /\ appended' = [appended EXCEPT !.log = @ \o r.ids]
          /\ lastOp' = Op("append", "log")
    /\ UNCHANGED <<logSearchOpen, logIsExpanding, logFetch, netSearchOpen,
                   netNextNodeId, netIsExpanding, netFetch, netById, traffic, sessionVars, now>>

\* onLog: a console call, an exception or an eval result arrives
AppendEntryLog(label, args) ==
    /\ logNextNodeId + 1 <= LogIdBound
    /\ \E r \in {appendEntryLog(logTree, logNextNodeId, label, args)} :
          /\ CommitLog([LogSt EXCEPT !.tree = r.tree])
          /\ logNextNodeId' = r.counter
          /\ appended' = [appended EXCEPT !.log = @ \o r.ids]
          /\ lastOp' = Op("append", "log")
    /\ UNCHANGED <<logSearchOpen, logIsExpanding, logFetch, netSearchOpen,
                   netNextNodeId, netIsExpanding, netFetch, netById, traffic, sessionVars, now>>

\* clearLogs
clearLogs(st) == [st EXCEPT !.tree = <<>>, !.sel = NoId, !.top = 0, !.follow = TRUE]

\* ensureEntryChildren
ensureEntryChildren(node) ==
    IF node.kind # "entry" THEN node
    ELSE IF Len(node.children) > 0 THEN node
    ELSE [node EXCEPT !.children =
              [i \in 1..Len(node.args) |->
                  [Node(ArgId(node.id, i - 1), "arg") EXCEPT !.object = node.args[i]]]]

\* toggleExpandSelected: the `expandable` test of the expansion controller
logExpandable(node) ==
    CASE node.kind = "entry" -> Len(node.args) > 0
      [] node.kind = "arg" -> isObjectExpandable(node.object)
      [] node.kind = "prop" -> isObjectExpandable(node.value)
      [] OTHER -> FALSE

LoadingProps == <<"(loading properties...)">>

\* an entry updater that expands the entry and leaves its argument as it is
entryUpdaterPlain(n, c, nextExpanded, autoExpandArg0) ==
    [node |-> [ensureEntryChildren(n) EXCEPT !.expanded = nextExpanded], counter |-> c]

\* the updater of the entry branch of toggleExpandSelected
entryUpdater(n, c, nextExpanded, autoExpandArg0) ==
    LET ensured == ensureEntryChildren(n)
    IN IF ~autoExpandArg0
       THEN [node |-> [ensured EXCEPT !.expanded = nextExpanded], counter |-> c]
       ELSE IF Len(ensured.children) = 0
       THEN [node |-> [ensured EXCEPT !.expanded = nextExpanded], counter |-> c]
       ELSE LET first == ensured.children[1]
                updatedFirst ==
                    [first EXCEPT !.expanded = TRUE, !.loading = TRUE,
                                  !.children = <<MetaNode(NId(c + 1), LoadingProps)>>]
            IN [node |-> [ensured EXCEPT !.expanded = nextExpanded,
                                         !.children = <<updatedFirst>> \o Tail(ensured.children)],
                counter |-> c + 1]

\* the node the toggle and collapse handlers act on: the selection, else the
\* last flattened line
targetId(flat, sel) == IF sel # NoId THEN sel ELSE flat[Len(flat)].nodeId

\* the result of a toggle handler up to its await
ToggleResult(r, fetch, outcome) ==
    [tree |-> r.tree, counter |-> r.counter, fetch |-> fetch, outcome |-> outcome]

\* toggleExpandSelected on the node it found, as [tree, counter, fetch, outcome]
toggleLogNode(tree, counter, nodeId, node, nextExpanded) ==
    LET autoExpandArg0 ==
            nextExpanded /\ Len(node.args) = 1 /\ isObjectExpandable(node.args[1])
        obj == IF node.kind = "arg" THEN node.object ELSE node.value
        flipped ==
            updateNodeById(tree, nodeId,
                LAMBDA n, c : [node |-> [n EXCEPT !.expanded = nextExpanded], counter |-> c],
                counter)
        loading(r1) ==
            updateNodeById(r1.tree, nodeId,
                LAMBDA n, c :
                    [node |-> [n EXCEPT !.loading = TRUE,
                                        !.children = <<MetaNode(NId(c + 1), LoadingProps)>>],
                     counter |-> c + 1],
                r1.counter)
    IN IF node.kind = "entry"
       THEN ToggleResult(
                updateNodeById(tree, nodeId,
                    LAMBDA n, c : entryUpdater(n, c, nextExpanded, autoExpandArg0),
                    counter),
                IF autoExpandArg0
                THEN [active |-> TRUE, nodeId |-> ArgId(nodeId, 0),
                      key |-> node.args[1].objectId, rid |-> 0]
                ELSE NoFetch,
                IF autoExpandArg0 THEN "fetching"
                ELSE IF nextExpanded THEN "expanded" ELSE "collapsed")
       ELSE IF ~nextExpanded THEN ToggleResult(flipped, NoFetch, "collapsed")
       ELSE IF ~isObjectExpandable(obj) \/ (Len(node.children) > 0 /\ ~node.loading)
       THEN ToggleResult(flipped, NoFetch, "expanded")
       ELSE ToggleResult(loading(flipped),
                         [active |-> TRUE, nodeId |-> nodeId, key |-> obj.objectId,
                          rid |-> 0],
                         "fetching")

\* toggleExpandSelected without the in-flight guard
toggleExpandSelectedUnguarded(st, counter, isExpanding) ==
    LET same(outcome) == [tree |-> st.tree, counter |-> counter, fetch |-> NoFetch,
                          outcome |-> outcome]
        onNode(nodeId, node) ==
            IF ~logExpandable(node) THEN same("ignored")
            ELSE toggleLogNode(st.tree, counter, nodeId, node, ~node.expanded)
        onId(nodeId) ==
            IF ~hasNodeById(st.tree, nodeId) THEN same("ignored")
            ELSE onNode(nodeId, findNodeById(st.tree, nodeId))
        onFlat(flat) ==
            IF Len(flat) = 0 THEN same("ignored") ELSE onId(targetId(flat, st.sel))
    IN onFlat(Flat("log", st))

\* toggleExpandSelected up to its await, as [tree, counter, fetch, outcome]
toggleExpandSelected(st, counter, isExpanding) ==
    LET same(outcome) == [tree |-> st.tree, counter |-> counter, fetch |-> NoFetch,
                          outcome |-> outcome]
        onNode(nodeId, node) ==
            IF ~logExpandable(node) THEN same("ignored")
            ELSE toggleLogNode(st.tree, counter, nodeId, node, ~node.expanded)
        onId(nodeId) ==
            IF ~hasNodeById(st.tree, nodeId) THEN same("ignored")
            ELSE onNode(nodeId, findNodeById(st.tree, nodeId))
        onFlat(flat) ==
            IF Len(flat) = 0 THEN same("ignored") ELSE onId(targetId(flat, st.sel))
    IN IF isExpanding THEN same("dropped") ELSE onFlat(Flat("log", st))

\* useCdpClient: the nodes getProperties builds from the sorted property list
\* read at wall-clock time `time`
getProperties(items, time) ==
    LET sliced == IF Len(items) > PROPERTY_LIMIT THEN SubSeq(items, 1, PROPERTY_LIMIT) ELSE items
        children == [i \in 1..Len(sliced) |->
                        [Node(PropId(i, time), "prop") EXCEPT !.name = sliced[i].name,
                                                              !.value = sliced[i].value]]
    IN IF Len(items) > PROPERTY_LIMIT
       THEN Append(children, MetaNode(PropId(Len(sliced) + 1, time), <<"more properties">>))
       ELSE children

\* the update toggleExpandSelected applies when its fetch resolved
applyProperties(tree, counter, nodeId, children) ==
    updateNodeById(tree, nodeId,
        LAMBDA n, c : [node |-> [n EXCEPT !.loading = FALSE, !.children = children],
                       counter |-> c],
        counter)

\* the update toggleExpandSelected applies when its fetch rejected
applyPropertiesError(tree, counter, nodeId) ==
    updateNodeById(tree, nodeId,
        LAMBDA n, c : [node |-> [n EXCEPT !.loading = FALSE,
                                   !.children = <<MetaNode(NId(c + 1), <<"[props] ! ", "err">>)>>],
                       counter |-> c + 1],
        counter)

\* the user presses z on the logs tab
ToggleExpandSelected ==
    /\ focus = "right" /\ rightTab = "logs"
    /\ ~evalOpen /\ ~logSearchOpen /\ ~netSearchOpen
    /\ \E r \in {toggleExpandSelected(LogSt, logNextNodeId, logIsExpanding)} :
          /\ r.counter <= LogIdBound
          /\ CommitLog([LogSt EXCEPT !.tree = r.tree])
          /\ logNextNodeId' = r.counter
          /\ logIsExpanding' = (logIsExpanding \/ r.fetch.active)
          /\ logFetch' = IF r.fetch.active THEN logFetch \cup {r.fetch} ELSE logFetch
          /\ lastOp' = [Op("toggle", "log")
                        EXCEPT !.dropped = (r.outcome = "dropped"),
                               !.fetched = r.fetch.active]
    /\ UNCHANGED <<logSearchOpen, netSearchOpen, netNextNodeId, netIsExpanding,
                   netFetch, netById, traffic, sessionVars, now, appended>>

\* a completion that discards the properties once the session is detached
LogFetchResolvedAttachedOnly(f, items, time) ==
    /\ f \in logFetch
    /\ \E r \in {IF clientRef
                  THEN applyProperties(logTree, logNextNodeId, f.nodeId,
                                       getProperties(items, time))
                  ELSE [tree |-> logTree, counter |-> logNextNodeId]} :
          /\ CommitLog([LogSt EXCEPT !.tree = r.tree])
          /\ logNextNodeId' = r.counter
    /\ now' = time
    /\ logIsExpanding' = FALSE
    /\ logFetch' = logFetch \ {f}
    /\ lastOp' = Op("resolved", "log")
    /\ UNCHANGED <<logSearchOpen, netSearchOpen, netNextNodeId, netIsExpanding,
                   netFetch, netById, traffic, sessionVars, appended>>

\* Runtime.getProperties resolves
LogFetchResolved(f, items, time) ==
    /\ f \in logFetch
    /\ \E r \in {applyProperties(logTree, logNextNodeId, f.nodeId,
                                   getProperties(items, time))} :
          /\ CommitLog([LogSt EXCEPT !.tree = r.tree])
          /\ logNextNodeId' = r.counter
    /\ now' = time
    /\ logIsExpanding' = FALSE
    /\ logFetch' = logFetch \ {f}
    /\ lastOp' = Op("resolved", "log")
    /\ UNCHANGED <<logSearchOpen, netSearchOpen, netNextNodeId, netIsExpanding,
                   netFetch, netById, traffic, sessionVars, appended>>

\* a rejection whose handler leaves the in-flight guard set
LogFetchRejectedKeepsGuard(f) ==
    /\ f \in logFetch
    /\ \E r \in {applyPropertiesError(logTree, logNextNodeId, f.nodeId)} :
          /\ r.counter <= LogIdBound
          /\ CommitLog([LogSt EXCEPT !.tree = r.tree])
          /\ logNextNodeId' = r.counter
    /\ logFetch' = logFetch \ {f}
    /\ lastOp' = Op("rejected", "log")
    /\ UNCHANGED <<logSearchOpen, logIsExpanding, netSearchOpen, netNextNodeId,
                   netIsExpanding, netFetch, netById, traffic, sessionVars, now, appended>>

\* Runtime.getProperties rejects (or the session is not attached)
LogFetchRejected(f) ==
    /\ f \in logFetch
    /\ \E r \in {applyPropertiesError(logTree, logNextNodeId, f.nodeId)} :
          /\ r.counter <= LogIdBound
          /\ CommitLog([LogSt EXCEPT !.tree = r.tree])
          /\ logNextNodeId' = r.counter
    /\ logIsExpanding' = FALSE
    /\ logFetch' = logFetch \ {f}
    /\ lastOp' = Op("rejected", "log")
    /\ UNCHANGED <<logSearchOpen, netSearchOpen, netNextNodeId, netIsExpanding,
                   netFetch, netById, traffic, sessionVars, now, appended>>

-----------------------------------------------------------------------------
(* Keys of the right panel that act on the active tab's view *)

\* no prompt is open: the key reaches the main key map
MainKeys == ~evalOpen /\ ~netSearchOpen /\ ~logSearchOpen

\* App useInput: up / down / page up / page down on a view
moveSelection(flat, st, delta) ==
    IF Len(flat) = 0 THEN st
    ELSE LET nextIdx == clamp(selectedIndex(flat, st.sel) + delta, 0, Len(flat) - 1)
         IN [st EXCEPT !.sel = flat[nextIdx + 1].nodeId,
                       !.follow = IF delta < 0 THEN FALSE ELSE nextIdx = Len(flat) - 1]

Steps == {-1, 1, -visibleLogLines(Ui), visibleLogLines(Ui)}

\* the user presses k / j / page up / page down on the logs tab
MoveLogSelection(delta) ==
    /\ MainKeys /\ focus = "right" /\ rightTab = "logs"
    /\ CommitLog(moveSelection(flatLogs, LogSt, delta))
    /\ lastOp' = Op("move", "log")
    /\ UNCHANGED <<logSearchOpen, logNextNodeId, logIsExpanding, logFetch,
                   netSearchOpen, netNextNodeId, netIsExpanding, netFetch, netById,
                   traffic, sessionVars, now, appended>>

\* the user presses f
FollowLog ==
    /\ MainKeys /\ (focus # "right" \/ rightTab = "logs")
    /\ CommitLog([LogSt EXCEPT !.follow = TRUE])
    /\ lastOp' = Op("follow", "log")
    /\ UNCHANGED <<logSearchOpen, logNextNodeId, logIsExpanding, logFetch,
                   netSearchOpen, netNextNodeId, netIsExpanding, netFetch, netById,
                   traffic, sessionVars, now, appended>>

\* the user presses c away from the network tab
ClearLogs ==
    /\ MainKeys /\ ~(focus = "right" /\ rightTab = "network")
    /\ CommitLog(clearLogs(LogSt))
    /\ appended' = [appended EXCEPT !.log = <<>>]
    /\ lastOp' = Op("clear", "log")
    /\ UNCHANGED <<logSearchOpen, logNextNodeId, logIsExpanding, logFetch,
                   netSearchOpen, netNextNodeId, netIsExpanding, netFetch, netById,
                   traffic, sessionVars, now>>

\* the texts the user types into the log search prompt
LogQueries == {<<>>, <<" ">>, <<"b">>}

\* the prompt opens and follow stays as it was
OpenLogSearchKeepFollow ==
    /\ MainKeys /\ focus = "right" /\ rightTab = "logs"
    /\ logSearchOpen' = TRUE
    /\ CommitLog(LogSt)
    /\ lastOp' = Op("search", "log")
    /\ UNCHANGED <<logNextNodeId, logIsExpanding, logFetch,
                   netSearchOpen, netNextNodeId, netIsExpanding, netFetch, netById,
                   traffic, sessionVars, now, appended>>

\* the user presses / on the logs tab
OpenLogSearch ==
    /\ MainKeys /\ focus = "right" /\ rightTab = "logs"
    /\ logSearchOpen' = TRUE
    /\ CommitLog([LogSt EXCEPT !.follow = FALSE])
    /\ lastOp' = Op("search", "log")
    /\ UNCHANGED <<logNextNodeId, logIsExpanding, logFetch,
                   netSearchOpen, netNextNodeId, netIsExpanding, netFetch, netById,
                   traffic, sessionVars, now, appended>>

\* the user edits the text of the log search prompt (or presses ctrl-u)
TypeLogQuery(q) ==
    /\ ~evalOpen /\ ~netSearchOpen /\ logSearchOpen
    /\ q # logSearchQuery
    /\ CommitLog([LogSt EXCEPT !.query = q])
    /\ lastOp' = Op("query", "log")
    /\ UNCHANGED <<logSearchOpen, logNextNodeId, logIsExpanding, logFetch,
                   netSearchOpen, netNextNodeId, netIsExpanding, netFetch, netById,
                   traffic, sessionVars, now, appended>>

\* the user presses escape or return in the log search prompt
CloseLogSearch ==
    /\ ~evalOpen /\ ~netSearchOpen /\ logSearchOpen
    /\ logSearchOpen' = FALSE
    /\ lastOp' = Op("searchclose", "log")
    /\ UNCHANGED <<logTree, followTail, logScrollTop, selectedLogNodeId, logSearchQuery,
                   logNextNodeId, logIsExpanding, logFetch, netVars, uiVars,
                   traffic, sessionVars, now, appended>>

-----------------------------------------------------------------------------
(* Network records.  A record is a function from field names to values; a   *)
(* value is <<>> when the field is undefined or absent and <<v>> when it is *)
(* v.  A patch is a function on the keys the patch object carries.          *)

RecordKeys ==
    {"startTimestamp", "method", "url", "requestHeaders", "postData", "initiator",
     "type", "status", "statusText", "mimeType", "protocol", "remoteIPAddress",
     "remotePort", "fromDiskCache", "fromServiceWorker", "responseHeaders",
     "endTimestamp", "encodedDataLength", "errorText", "canceled", "responseBody"}

\* { requestId: rid }
EmptyRecord == [k \in RecordKeys |-> <<>>]

\* a string field read in a boolean position
Truthy(v) == v # <<>> /\ v[1] # <<>>

\* a boolean field read in a boolean position
TruthyFlag(v) == v # <<>> /\ v[1]

\* netByIdRef.current.get(rid) ?? { requestId: rid }
getNetRecord(byId, rid) == IF rid \in DOMAIN byId THEN byId[rid] ELSE EmptyRecord

\* a full replace by the patch instead of a merge
replaceRecord(prev, patch) ==
    [k \in RecordKeys |-> IF k \in DOMAIN patch THEN patch[k] ELSE <<>>]

\* upsertNet: { ...prev, ...patch }
mergeRecord(prev, patch) ==
    [k \in RecordKeys |-> IF k \in DOMAIN patch THEN patch[k] ELSE prev[k]]

\* a record map capped like the store: only the record of the last event stays
upsertNetCapped(byId, rid, patch) ==
    [r \in {rid} |-> mergeRecord(getNetRecord(byId, rid), patch)]

\* upsertNet, as the new record map
upsertNet(byId, rid, patch) ==
    LET merged == mergeRecord(getNetRecord(byId, rid), patch)
    IN [r \in (DOMAIN byId) \cup {rid} |-> IF r = rid THEN merged ELSE byId[r]]

\* a string field, "" when undefined
StrOf(v) == IF v = <<>> THEN <<>> ELSE v[1]

\* the clock text of a timestamp: one text per timestamp, never empty
formatTime(ts) == <<ToString(ts)>>

\* getNetLabel
getNetLabel(byId, rid) ==
    LET r == getNetRecord(byId, rid)
        method == StrOf(r["method"])
        url == StrOf(r["url"])
        tail == IF Truthy(r["errorText"]) THEN <<" ", "x", " ">> \o r["errorText"][1]
                ELSE IF r["status"] # <<>> THEN <<" ", ToString(r["status"][1])>>
                ELSE <<>>
        time == formatTime(IF r["startTimestamp"] # <<>> THEN r["startTimestamp"][1] ELSE now)
    IN trimEnd(<<"[">> \o time \o <<"]", " ">> \o method \o <<" ">> \o url \o tail)

\* the keys of a header map in localeCompare order
HeaderRank(k) == CASE k = "accept" -> 1 [] k = "host" -> 2 [] OTHER -> 3

RECURSIVE sortedKeys(_)
sortedKeys(h) ==
    IF h = {} THEN <<>>
    ELSE LET k == CHOOSE x \in h : \A y \in h : HeaderRank(x) <= HeaderRank(y)
         IN <<k>> \o sortedKeys(h \ {k})

\* buildHeadersChildren, as [nodes, counter]; headers is <<>> or <<set of keys>>
buildHeadersChildren(headers, counter) ==
    LET build(entries, sliced) ==
            [i \in 1..Len(sliced) |->
                TextNode(NetNId(counter + i), <<sliced[i], ":", " ", "v">>)]
            \o (IF Len(entries) > HEADER_LIMIT
                THEN <<MetaNode(NetNId(counter + Len(sliced) + 1), <<"more headers">>)>>
                ELSE <<>>)
        slice(entries) ==
            build(entries, IF Len(entries) > HEADER_LIMIT
                           THEN SubSeq(entries, 1, HEADER_LIMIT) ELSE entries)
        finish(children) ==
            IF Len(children) = 0
            THEN [nodes |-> <<MetaNode(NetNId(counter + 1), <<"(no headers)">>)>>,
                  counter |-> counter + 1]
            ELSE [nodes |-> children, counter |-> counter + Len(children)]
    IN finish(slice(IF headers = <<>> THEN <<>> ELSE sortedKeys(headers[1])))

\* the text nodes a list of optional lines becomes, as [nodes, counter]
RECURSIVE optionalTexts(_, _)
optionalTexts(lines, counter) ==
    IF lines = <<>> THEN [nodes |-> <<>>, counter |-> counter]
    ELSE IF Head(lines).present
    THEN LET rest == optionalTexts(Tail(lines), counter + 1)
         IN [nodes |-> <<TextNode(NetNId(counter + 1), Head(lines).text)>> \o rest.nodes,
             counter |-> rest.counter]
    ELSE optionalTexts(Tail(lines), counter)

HeaderCount(headers) == IF headers = <<>> THEN 0 ELSE Cardinality(headers[1])

NetEntry(id, label, children, net) ==
    [Node(id, "entry") EXCEPT !.label = label, !.children = children, !.net = net]

\* buildNetChildren, as [nodes, counter]
buildNetChildren(byId, rid, counter) ==
    LET r == getNetRecord(byId, rid)
        metaOf(c) ==
            optionalTexts(
                <<[present |-> Truthy(r["type"]),
                   text |-> <<"type", ":", " ">> \o StrOf(r["type"])],
                  [present |-> Truthy(r["initiator"]),
                   text |-> <<"initiator", ":", " ">> \o StrOf(r["initiator"])],
                  [present |-> r["encodedDataLength"] # <<>>,
                   text |-> IF r["encodedDataLength"] # <<>>
                            THEN <<"bytes", ":", " ", ToString(r["encodedDataLength"][1])>>
                            ELSE <<>>]>>,
                c)
        resMetaOf(c) ==
            optionalTexts(
                <<[present |-> Truthy(r["protocol"]),
                   text |-> <<"protocol", ":", " ">> \o StrOf(r["protocol"])],
                  [present |-> Truthy(r["remoteIPAddress"]),
                   text |-> <<"remote", ":", " ">> \o StrOf(r["remoteIPAddress"])
                            \o (IF r["remotePort"] # <<>>
                                THEN <<":", ToString(r["remotePort"][1])>> ELSE <<>>)],
                  [present |-> TruthyFlag(r["fromDiskCache"]),
                   text |-> <<"fromDiskCache", ":", " ", "true">>],
                  [present |-> TruthyFlag(r["fromServiceWorker"]),
                   text |-> <<"fromServiceWorker", ":", " ", "true">>]>>,
                c)
        resLineParts ==
            (IF r["status"] # <<>> THEN <<<<ToString(r["status"][1])>>>> ELSE <<>>)
            \o (IF Truthy(r["statusText"]) THEN <<r["statusText"][1]>> ELSE <<>>)
            \o (IF Truthy(r["mimeType"]) THEN <<r["mimeType"][1]>> ELSE <<>>)
        responseLabel(parts) ==
            <<"Response">> \o (IF Len(parts) > 0 THEN <<":", " ">> \o joinSpace(parts)
                               ELSE <<>>)
        assemble(meta, reqHeaders, resMeta, resHeaders) ==
            [nodes |->
                meta.nodes
                \o <<NetEntry(NetPartId(rid, "net:reqHeaders"),
                              <<"Request Headers", " ", "(",
                                ToString(HeaderCount(r["requestHeaders"])), ")">>,
                              reqHeaders.nodes, NetInfo(rid, "headers", "request"))>>
                \o (IF Truthy(r["postData"])
                    THEN <<NetEntry(NetPartId(rid, "net:reqBody"), <<"Request Body">>,
                                    <<MetaNode(NetNId(resHeaders.counter + 2),
                                               <<"(press z to view)">>)>>,
                                    NetInfo(rid, "body", "request"))>>
                    ELSE <<>>)
                \o <<NetEntry(NetPartId(rid, "net:response"), responseLabel(resLineParts),
                              <<NetEntry(NetPartId(rid, "net:resHeaders"),
                                         <<"Response Headers", " ", "(",
                                           ToString(HeaderCount(r["responseHeaders"])), ")">>,
                                         resHeaders.nodes,
                                         NetInfo(rid, "headers", "response"))>>
                              \o resMeta.nodes
                              \o <<NetEntry(NetPartId(rid, "net:body"), <<"Response Body">>,
                                            <<MetaNode(NetNId(resHeaders.counter + 1),
                                                       <<"(press z to load)">>)>>,
                                            NetInfo(rid, "body", "none"))>>,
                              NetInfo(rid, "response", "none"))>>,
             counter |-> resHeaders.counter + 2]
        withResMeta(meta, reqHeaders, resMeta) ==
            assemble(meta, reqHeaders, resMeta,
                     buildHeadersChildren(r["responseHeaders"], resMeta.counter))
        withReqHeaders(meta, reqHeaders) ==
            withResMeta(meta, reqHeaders, resMetaOf(reqHeaders.counter))
        withMeta(meta) ==
            withReqHeaders(meta, buildHeadersChildren(r["requestHeaders"], meta.counter))
    IN withMeta(metaOf(counter))

\* a root appended at every event, also for a request that has one
ensureNetRequestNodeAlways(tree, byId, rid) ==
    LET next == tree \o <<NetEntry(NetId(rid), getNetLabel(byId, rid), <<>>,
                                   NetInfo(rid, "request", "none"))>>
    IN [tree |-> IF Len(next) > NET_MAX_ITEMS THEN LastN(next, NET_MAX_ITEMS) ELSE next,
        created |-> TRUE]

\* a root that exists keeps the label it has
ensureNetRequestNodeNoRelabel(tree, byId, rid) ==
    IF hasNodeById(tree, NetId(rid)) THEN [tree |-> tree, created |-> FALSE]
    ELSE LET next == tree \o <<NetEntry(NetId(rid), getNetLabel(byId, rid), <<>>,
                                        NetInfo(rid, "request", "none"))>>
         IN [tree |-> IF Len(next) > NET_MAX_ITEMS THEN LastN(next, NET_MAX_ITEMS) ELSE next,
             created |-> TRUE]

\* ensureNetRequestNode, as [tree, created]
ensureNetRequestNode(tree, byId, rid) ==
    LET id == NetId(rid)
    IN IF hasNodeById(tree, id)
       THEN [tree |-> updateNodeById(tree, id,
                          LAMBDA n, c : [node |-> [n EXCEPT !.label = getNetLabel(byId, rid)],
                                         counter |-> c], 0).tree,
             created |-> FALSE]
       ELSE LET next == tree \o <<NetEntry(id, getNetLabel(byId, rid), <<>>,
                                           NetInfo(rid, "request", "none"))>>
            IN [tree |-> IF Len(next) > NET_MAX_ITEMS THEN LastN(next, NET_MAX_ITEMS)
                         ELSE next,
                created |-> TRUE]

\* a relabel that builds the children of a root whether it has some or not
updateNetNodeLabelEager(tree, byId, rid, counter) ==
    updateNodeById(tree, NetId(rid),
        LAMBDA n, c :
            LET b == buildNetChildren(byId, rid, c)
            IN [node |-> [n EXCEPT !.label = getNetLabel(byId, rid), !.children = b.nodes],
                counter |-> b.counter],
        counter)

\* updateNetNodeLabel, as [tree, counter]
updateNetNodeLabel(tree, byId, rid, counter) ==
    updateNodeById(tree, NetId(rid),
        LAMBDA n, c :
            IF Len(n.children) > 0
            THEN LET b == buildNetChildren(byId, rid, c)
                 IN [node |-> [n EXCEPT !.label = getNetLabel(byId, rid),
                                        !.children = b.nodes],
                     counter |-> b.counter]
            ELSE [node |-> [n EXCEPT !.label = getNetLabel(byId, rid)], counter |-> c],
        counter)

-----------------------------------------------------------------------------
(* Network store: protocol events *)

\* the request ids the protocol sends
Rids == 1..MaxRid

\* the patch of Network.requestWillBeSent
RequestPatches ==
    {[startTimestamp |-> <<1>>, method |-> <<<<"GET">>>>, url |-> <<<<"http://a">>>>,
      requestHeaders |-> <<{"accept"}>>, postData |-> <<<<"p">>>>,
      initiator |-> <<>>, type |-> <<<<"xhr">>>>]}

\* the patch of Network.responseReceived
ResponsePatches ==
    {[status |-> <<200>>, statusText |-> <<<<"OK">>>>, mimeType |-> <<>>,
      protocol |-> <<>>, remoteIPAddress |-> <<>>, remotePort |-> <<>>,
      fromDiskCache |-> <<FALSE>>, fromServiceWorker |-> <<FALSE>>,
      responseHeaders |-> <<{}>>]}

\* the patch of Network.loadingFinished
FinishedPatches == {[endTimestamp |-> <<2>>, encodedDataLength |-> <<512>>]}

\* the patch of Network.loadingFailed
FailedPatches ==
    {[endTimestamp |-> <<2>>, errorText |-> <<<<"failed">>>>, canceled |-> <<FALSE>>]}

\* the cap of the network id counter: a session that re-opens one response
\* body draws more ids than one under general traffic
NetIdBound == IF traffic = "body" THEN MaxBodyId ELSE MaxNetId

\* the number of request nodes created between two clears: a session that
\* watches a request come back after its eviction creates one more
NetRootsBound == IF traffic = "evict" THEN MaxEvictRoots ELSE MaxNetRoots

\* the part of an event callback that is common to the four events
NetEvent(rid, patch, relabel, op) ==
    /\ \E byId \in {upsertNet(netById, rid, patch)} :
       \E e \in {ensureNetRequestNode(netTree, byId, rid)} :
       \E u \in {IF relabel THEN updateNetNodeLabel(e.tree, byId, rid, netNextNodeId)
                 ELSE [tree |-> e.tree, counter |-> netNextNodeId]} :
          /\ u.counter <= NetIdBound
          /\ e.created => Len(appended.net) < NetRootsBound
          /\ netById' = byId
          /\ CommitNet([NetSt EXCEPT !.tree = u.tree])
          /\ netNextNodeId' = u.counter
          /\ appended' = IF e.created THEN [appended EXCEPT !.net = Append(@, NetId(rid))]
                         ELSE appended
          /\ lastOp' = Op(IF e.created THEN "append" ELSE op, "net")
    /\ UNCHANGED <<logSearchOpen, logNextNodeId, logIsExpanding, logFetch,
                   netSearchOpen, netIsExpanding, netFetch, traffic, sessionVars, now>>

\* onNetworkRequest
NetworkRequest(rid, patch) == NetEvent(rid, patch, FALSE, "request")

\* onNetworkResponse
NetworkResponse(rid, patch) == NetEvent(rid, patch, TRUE, "response")

\* onNetworkFinished
NetworkFinished(rid, patch) == NetEvent(rid, patch, TRUE, "finished")

\* onNetworkFailed
NetworkFailed(rid, patch) == NetEvent(rid, patch, TRUE, "failed")

\* clearNetwork, on the view state (the record map is emptied with it)
clearNetwork(st) ==
    [st EXCEPT !.tree = <<>>, !.sel = NoId, !.top = 0, !.follow = TRUE, !.query = <<>>]

-----------------------------------------------------------------------------
(* Network store: bodies and the expansion controller *)

\* what Network.getResponseBody answers
Bodies ==
    {[body |-> <<"x", "\n", "y">>, base64Encoded |-> FALSE],
     [body |-> <<"{", "k", ":", "1", "}">>, base64Encoded |-> FALSE]}

\* JSON.parse followed by JSON.stringify(_, null, 2), on the texts of the model:
\* an object with one member, the empty object, and everything else a syntax error
tryPrettifyJson(body) ==
    LET trimmed == trim(body)
    IN IF trimmed = <<>> \/ (trimmed[1] # "{" /\ trimmed[1] # "[")
       THEN [formatted |-> body, isJson |-> FALSE]
       ELSE IF Len(trimmed) = 5 /\ trimmed[1] = "{" /\ trimmed[3] = ":" /\ trimmed[5] = "}"
       THEN [formatted |-> <<"{", "\n", "  ", trimmed[2], ":", " ", trimmed[4], "\n", "}">>,
             isJson |-> TRUE]
       ELSE IF trimmed = <<"{", "}">>
       THEN [formatted |-> <<"{", "}">>, isJson |-> TRUE]
       ELSE [formatted |-> body, isJson |-> FALSE]

\* formatResponseBody
formatResponseBody(body, base64Encoded) ==
    IF base64Encoded
    THEN [lines |-> <<IF Len(body) > 100 THEN SubSeq(body, 1, 100) \o <<"...">> ELSE body>>,
          typeHint |-> <<"(base64 encoded)">>]
    ELSE LET f == tryPrettifyJson(body)
         IN [lines |-> splitLines(f.formatted),
             typeHint |-> IF f.isJson THEN <<"(json, formatted)">> ELSE <<"(text)">>]

\* the children the body branches build from a formatted body, as [nodes, counter]
bodyChildren(body, base64Encoded, counter) ==
    LET build(f, sliced) ==
            <<MetaNode(NetNId(counter + 1), f.typeHint)>>
            \o [i \in 1..Len(sliced) |-> TextNode(NetNId(counter + 1 + i), sliced[i])]
            \o (IF Len(f.lines) > BODY_LINE_LIMIT
                THEN <<MetaNode(NetNId(counter + Len(sliced) + 2), <<"more lines">>)>>
                ELSE <<>>)
        slice(f) ==
            Only({build(f, sliced) :
                     sliced \in {IF Len(f.lines) > BODY_LINE_LIMIT
                                 THEN SubSeq(f.lines, 1, BODY_LINE_LIMIT) ELSE f.lines}})
        finish(nodes) == [nodes |-> nodes, counter |-> counter + Len(nodes)]
    IN Only({finish(nodes) :
                nodes \in {slice(f) : f \in {formatResponseBody(body, base64Encoded)}}})

\* toggleNetExpandSelected: the `expandable` test of the expansion controller
netExpandable(node) ==
    IF node.kind = "entry" THEN Len(node.children) > 0 \/ node.net # NoNet ELSE FALSE

\* a record whose stored body is never seen
noCachedBody(record) == <<>>

\* record?.responseBody: <<>> when no body is stored on the record
cachedBody(record) == record["responseBody"]

\* toggleNetExpandSelected on the node it found, as [tree, counter, fetch, outcome]
toggleNetNode(tree, byId, counter, nodeId, node, nextExpanded) ==
    LET rid == node.net.requestId
        record == getNetRecord(byId, rid)
        outcome == IF nextExpanded THEN "expanded" ELSE "collapsed"
        flipped ==
            updateNodeById(tree, nodeId,
                LAMBDA n, c : [node |-> [n EXCEPT !.expanded = nextExpanded], counter |-> c],
                counter)
        setChildren(r1, b) ==
            updateNodeById(r1.tree, nodeId,
                LAMBDA n, c : [node |-> [n EXCEPT !.children = b.nodes], counter |-> c],
                b.counter)
        cached(r1, body, base64Encoded) ==
            setChildren(r1, bodyChildren(body, base64Encoded, r1.counter))
        loading(r1) ==
            updateNodeById(r1.tree, nodeId,
                LAMBDA n, c :
                    [node |-> [n EXCEPT !.loading = TRUE,
                                        !.children = <<MetaNode(NetNId(c + 1),
                                                          <<"(loading response body...)">>)>>],
                     counter |-> c + 1],
                r1.counter)
        built(n, c, b) ==
            [node |-> [n EXCEPT !.expanded = nextExpanded, !.children = b.nodes],
             counter |-> b.counter]
    IN IF node.net.role = "request"
       THEN ToggleResult(
                updateNodeById(tree, nodeId,
                    LAMBDA n, c :
                        IF Len(n.children) > 0
                        THEN [node |-> [n EXCEPT !.expanded = nextExpanded], counter |-> c]
                        ELSE built(n, c, buildNetChildren(byId, rid, c)),
                    counter),
                NoFetch, outcome)
       ELSE IF node.net.role = "body" /\ node.net.which = "request"
       THEN IF nextExpanded /\ Truthy(record["postData"])
            THEN ToggleResult(cached(flipped, record["postData"][1], FALSE), NoFetch, outcome)
            ELSE ToggleResult(flipped, NoFetch, outcome)
       ELSE IF node.net.role = "body"
       THEN IF ~nextExpanded THEN ToggleResult(flipped, NoFetch, outcome)
            ELSE IF cachedBody(record) # <<>>
            THEN ToggleResult(cached(flipped, cachedBody(record)[1].body,
                                     cachedBody(record)[1].base64Encoded),
                              NoFetch, outcome)
            ELSE ToggleResult(loading(flipped),
                              [active |-> TRUE, nodeId |-> nodeId, key |-> "", rid |-> rid],
                              "fetching")
       ELSE ToggleResult(flipped, NoFetch, outcome)

\* toggleNetExpandSelected with one in-flight guard shared by the two stores
toggleNetExpandSelectedShared(st, byId, counter, isExpanding) ==
    LET same(outcome) == [tree |-> st.tree, counter |-> counter, fetch |-> NoFetch,
                          outcome |-> outcome]
        onNode(nodeId, node) ==
            IF ~netExpandable(node) THEN same("ignored")
            ELSE toggleNetNode(st.tree, byId, counter, nodeId, node, ~node.expanded)
        onId(nodeId) ==
            IF ~hasNodeById(st.tree, nodeId) THEN same("ignored")
            ELSE onNode(nodeId, findNodeById(st.tree, nodeId))
        onFlat(flat) ==
            IF Len(flat) = 0 THEN same("ignored") ELSE onId(targetId(flat, st.sel))
    IN IF isExpanding \/ logIsExpanding THEN same("dropped") ELSE onFlat(Flat("net", st))

\* toggleNetExpandSelected up to its await, as [tree, counter, fetch, outcome]
toggleNetExpandSelected(st, byId, counter, isExpanding) ==
    LET same(outcome) == [tree |-> st.tree, counter |-> counter, fetch |-> NoFetch,
                          outcome |-> outcome]
        onNode(nodeId, node) ==
            IF ~netExpandable(node) THEN same("ignored")
            ELSE toggleNetNode(st.tree, byId, counter, nodeId, node, ~node.expanded)
        onId(nodeId) ==
            IF ~hasNodeById(st.tree, nodeId) THEN same("ignored")
            ELSE onNode(nodeId, findNodeById(st.tree, nodeId))
        onFlat(flat) ==
            IF Len(flat) = 0 THEN same("ignored") ELSE onId(targetId(flat, st.sel))
    IN IF isExpanding THEN same("dropped") ELSE onFlat(Flat("net", st))

\* the user presses z on the network tab
ToggleNetExpandSelected ==
    /\ MainKeys /\ focus = "right" /\ rightTab = "network"
    /\ \E r \in {toggleNetExpandSelected(NetSt, netById, netNextNodeId, netIsExpanding)} :
          /\ r.counter <= NetIdBound
          /\ CommitNet([NetSt EXCEPT !.tree = r.tree])
          /\ netNextNodeId' = r.counter
          /\ netIsExpanding' = (netIsExpanding \/ r.fetch.active)
          /\ netFetch' = IF r.fetch.active THEN netFetch \cup {r.fetch} ELSE netFetch
          /\ lastOp' = [Op("toggle", "net")
                        EXCEPT !.dropped = (r.outcome = "dropped"),
                               !.fetched = r.fetch.active]
    /\ UNCHANGED <<logSearchOpen, logNextNodeId, logIsExpanding, logFetch,
                   netSearchOpen, netById, traffic, sessionVars, now, appended>>

\* Network.getResponseBody resolves
NetFetchResolved(f, body) ==
    /\ f \in netFetch
    /\ \E byId \in {upsertNet(netById, f.rid, [responseBody |-> <<body>>])} :
       \E b \in {bodyChildren(body.body, body.base64Encoded, netNextNodeId)} :
       \E r \in {updateNodeById(netTree, f.nodeId,
                     LAMBDA n, c : [node |-> [n EXCEPT !.loading = FALSE, !.children = b.nodes],
                                    counter |-> c],
                     b.counter)} :
          /\ r.counter <= NetIdBound
          /\ netById' = byId
          /\ CommitNet([NetSt EXCEPT !.tree = r.tree])
          /\ netNextNodeId' = r.counter
    /\ netIsExpanding' = FALSE
    /\ netFetch' = netFetch \ {f}
    /\ lastOp' = Op("resolved", "net")
    /\ UNCHANGED <<logSearchOpen, logNextNodeId, logIsExpanding, logFetch,
                   netSearchOpen, traffic, sessionVars, now, appended>>

\* a rejection that releases the guard and leaves the node as it is
NetFetchRejectedKeepsLoading(f) ==
    /\ f \in netFetch
    /\ netIsExpanding' = FALSE
    /\ netFetch' = netFetch \ {f}
    /\ lastOp' = Op("rejected", "net")
    /\ UNCHANGED <<logVars, netTree, followNetTail, netScrollTop, selectedNetNodeId,
                   netSearchOpen, netSearchQuery, netNextNodeId, netById, uiVars,
                   traffic, sessionVars, now, appended>>

\* Network.getResponseBody rejects (or the session is not attached)
NetFetchRejected(f) ==
    /\ f \in netFetch
    /\ \E r \in {updateNodeById(netTree, f.nodeId,
                     LAMBDA n, c : [node |-> [n EXCEPT !.loading = FALSE,
                                                !.children = <<MetaNode(NetNId(c + 1),
                                                                        <<"[body] ! ", "err">>)>>],
                                    counter |-> c + 1],
                     netNextNodeId)} :
          /\ r.counter <= NetIdBound
          /\ CommitNet([NetSt EXCEPT !.tree = r.tree])
          /\ netNextNodeId' = r.counter
    /\ netIsExpanding' = FALSE
    /\ netFetch' = netFetch \ {f}
    /\ lastOp' = Op("rejected", "net")
    /\ UNCHANGED <<logSearchOpen, logNextNodeId, logIsExpanding, logFetch,
                   netSearchOpen, netById, traffic, sessionVars, now, appended>>

-----------------------------------------------------------------------------
(* Keys of the right panel on the network tab, and the keys that move focus *)

\* the user presses k / j / page up / page down on the network tab
MoveNetSelection(delta) ==
    /\ MainKeys /\ focus = "right" /\ rightTab = "network"
    /\ CommitNet(moveSelection(flatNet, NetSt, delta))
    /\ lastOp' = Op("move", "net")
    /\ UNCHANGED <<logSearchOpen, logNextNodeId, logIsExpanding, logFetch,
                   netSearchOpen, netNextNodeId, netIsExpanding, netFetch, netById,
                   traffic, sessionVars, now, appended>>

\* the user presses f on the network tab
FollowNet ==
    /\ MainKeys /\ focus = "right" /\ rightTab = "network"
    /\ CommitNet([NetSt EXCEPT !.follow = TRUE])
    /\ lastOp' = Op("follow", "net")
    /\ UNCHANGED <<logSearchOpen, logNextNodeId, logIsExpanding, logFetch,
                   netSearchOpen, netNextNodeId, netIsExpanding, netFetch, netById,
                   traffic, sessionVars, now, appended>>

\* the user presses c on the network tab
ClearNetwork ==
    /\ MainKeys /\ focus = "right" /\ rightTab = "network"
    /\ CommitNet(clearNetwork(NetSt))
    /\ netById' = <<>>
    /\ appended' = [appended EXCEPT !.net = <<>>]
    /\ lastOp' = Op("clear", "net")
    /\ UNCHANGED <<logSearchOpen, logNextNodeId, logIsExpanding, logFetch,
                   netSearchOpen, netNextNodeId, netIsExpanding, netFetch,
                   traffic, sessionVars, now>>

\* the texts the user types into the network search prompt
NetQueries == {<<>>, <<"200">>, <<"xhr">>}

\* the user presses / on the network tab
OpenNetSearch ==
    /\ MainKeys /\ focus = "right" /\ rightTab = "network"
    /\ netSearchOpen' = TRUE
    /\ CommitNet([NetSt EXCEPT !.follow = FALSE])
    /\ lastOp' = Op("search", "net")
    /\ UNCHANGED <<logSearchOpen, logNextNodeId, logIsExpanding, logFetch,
                   netNextNodeId, netIsExpanding, netFetch, netById,
                   traffic, sessionVars, now, appended>>

\* the user edits the text of the network search prompt (or presses ctrl-u)
TypeNetQuery(q) ==
    /\ ~evalOpen /\ netSearchOpen
    /\ q # netSearchQuery
    /\ CommitNet([NetSt EXCEPT !.query = q])
    /\ lastOp' = Op("query", "net")
    /\ UNCHANGED <<logSearchOpen, logNextNodeId, logIsExpanding, logFetch,
                   netSearchOpen, netNextNodeId, netIsExpanding, netFetch, netById,
                   traffic, sessionVars, now, appended>>

\* the user presses escape or return in the network search prompt
CloseNetSearch ==
    /\ ~evalOpen /\ netSearchOpen
    /\ netSearchOpen' = FALSE
    /\ lastOp' = Op("searchclose", "net")
    /\ UNCHANGED <<logVars, netTree, followNetTail, netScrollTop, selectedNetNodeId,
                   netSearchQuery, netNextNodeId, netIsExpanding, netFetch, netById,
                   uiVars, traffic, sessionVars, now, appended>>

\* the user presses l / n / [ / ] with the right panel focused
SetRightTab(tab) ==
    /\ MainKeys /\ focus = "right"
    /\ tab # rightTab
    /\ Commit(LogSt, NetSt, [Ui EXCEPT !.rightTab = tab])
    /\ lastOp' = Op("tab", "none")
    /\ UNCHANGED <<logSearchOpen, logNextNodeId, logIsExpanding, logFetch,
                   netSearchOpen, netNextNodeId, netIsExpanding, netFetch, netById,
                   traffic, sessionVars, now, appended>>

\* the user presses tab
SwitchFocus ==
    /\ MainKeys
    /\ Commit(LogSt, NetSt, [Ui EXCEPT !.focus = IF focus = "targets" THEN "right"
                                                 ELSE "targets"])
    /\ lastOp' = Op("focus", "none")
    /\ UNCHANGED <<logSearchOpen, logNextNodeId, logIsExpanding, logFetch,
                   netSearchOpen, netNextNodeId, netIsExpanding, netFetch, netById,
                   traffic, sessionVars, now, appended>>

\* the user presses : with no prompt open
OpenEval ==
    /\ MainKeys
    /\ Commit(LogSt, NetSt, [Ui EXCEPT !.evalOpen = TRUE])
    /\ lastOp' = Op("eval", "none")
    /\ UNCHANGED <<logSearchOpen, logNextNodeId, logIsExpanding, logFetch,
                   netSearchOpen, netNextNodeId, netIsExpanding, netFetch, netById,
                   traffic, sessionVars, now, appended>>

\* the user presses escape, or return on an empty text, in the eval prompt
CloseEval ==
    /\ evalOpen
    /\ Commit(LogSt, NetSt, [Ui EXCEPT !.evalOpen = FALSE])
    /\ lastOp' = Op("eval", "none")
    /\ UNCHANGED <<logSearchOpen, logNextNodeId, logIsExpanding, logFetch,
                   netSearchOpen, netNextNodeId, netIsExpanding, netFetch, netById,
                   traffic, sessionVars, now, appended>>

-----------------------------------------------------------------------------
(* Region collapse *)

\* updateNodeById(prev, id, (n) => ({ ...n, expanded: false }))
collapseNode(tree, id) ==
    updateNodeById(tree, id,
        LAMBDA n, c : [node |-> [n EXCEPT !.expanded = FALSE], counter |-> c], 0).tree

\* findNodeById(tree, id)?.expanded
isExpandedById(tree, id) == hasNodeById(tree, id) /\ findNodeById(tree, id).expanded

\* flat[flat.findIndex((l) => l.nodeId === id)].parentId, null when absent
parentIdOf(flat, id) ==
    IF findIndex(flat, id) >= 0 THEN flat[findIndex(flat, id) + 1].parentId ELSE NoId

\* the ancestor walk of the region collapse, from the parent id of the current line
RECURSIVE collapseAncestor(_, _, _)
collapseAncestor(flat, st, parentId) ==
    IF parentId = NoId THEN st
    ELSE IF isExpandedById(st.tree, parentId)
    THEN [st EXCEPT !.sel = parentId, !.tree = collapseNode(st.tree, parentId)]
    ELSE collapseAncestor(flat, st, parentIdOf(flat, parentId))

\* collapseSelectedRegion / collapseNetSelectedRegion on the view state of a store
collapseRegion(flat, st) ==
    IF Len(flat) = 0 THEN st
    ELSE IF isExpandedById(st.tree, targetId(flat, st.sel))
    THEN [st EXCEPT !.tree = collapseNode(st.tree, targetId(flat, st.sel))]
    ELSE IF findIndex(flat, targetId(flat, st.sel)) < 0 THEN st
    ELSE collapseAncestor(flat, st, parentIdOf(flat, targetId(flat, st.sel)))

\* useLogTree: collapseSelectedRegion
collapseSelectedRegion(st) == collapseRegion(Flat("log", st), st)

\* useNetTree: collapseNetSelectedRegion
collapseNetSelectedRegion(st) == collapseRegion(Flat("net", st), st)

\* the user presses Z on the logs tab
CollapseSelectedRegion ==
    /\ MainKeys /\ focus = "right" /\ rightTab = "logs"
    /\ CommitLog(collapseSelectedRegion(LogSt))
    /\ lastOp' = Op("collapse", "log")
    /\ UNCHANGED <<logSearchOpen, logNextNodeId, logIsExpanding, logFetch,
                   netSearchOpen, netNextNodeId, netIsExpanding, netFetch, netById,
                   traffic, sessionVars, now, appended>>

\* the user presses Z on the network tab
CollapseNetSelectedRegion ==
    /\ MainKeys /\ focus = "right" /\ rightTab = "network"
    /\ CommitNet(collapseNetSelectedRegion(NetSt))
    /\ lastOp' = Op("collapse", "net")
    /\ UNCHANGED <<logSearchOpen, logNextNodeId, logIsExpanding, logFetch,
                   netSearchOpen, netNextNodeId, netIsExpanding, netFetch, netById,
                   traffic, sessionVars, now, appended>>

-----------------------------------------------------------------------------
(* Specifications *)

\* the texts connectToTarget fails with
ConnectErrors == {<<"Error: connect">>, <<"Error: closed">>}

\* the title of a target of the list
Title(index) == <<"T", ToString(index)>>

\* attachByIndex up to the await of connectToTarget: the user presses enter on the
\* target list; attach() first detaches the client it holds
AttachByIndex(index) ==
    /\ MainKeys /\ focus = "targets"
    /\ ~isAttachingRef
    /\ IF index \notin 0..(NumTargets - 1)
       THEN UNCHANGED <<clientRef, attachedIndex, isAttachingRef, connecting>>
       ELSE /\ isAttachingRef' = TRUE
            /\ clientRef' = FALSE
            /\ connecting' = index
            /\ UNCHANGED attachedIndex
    /\ lastOp' = Op("attaching", "none")
    /\ UNCHANGED <<logVars, netVars, uiVars, traffic, now, appended>>

\* a failure path that returns without releasing the attach-in-progress guard
AttachFailedKeepsGuard(err) ==
    /\ connecting # NoTarget
    /\ \E line \in {<<"[">> \o formatTime(now) \o <<"] ">> \o err} :
          /\ logNextNodeId + Len(splitLines(line)) <= LogIdBound
          /\ \E r \in {appendTextLog(logTree, logNextNodeId, line)} :
                /\ CommitLog([LogSt EXCEPT !.tree = r.tree])
                /\ logNextNodeId' = r.counter
                /\ appended' = [appended EXCEPT !.log = @ \o r.ids]
    /\ connecting' = NoTarget
    /\ lastOp' = Op("append", "log")
    /\ UNCHANGED <<clientRef, attachedIndex, isAttachingRef, logSearchOpen,
                   logIsExpanding, logFetch,
                   netSearchOpen, netNextNodeId, netIsExpanding, netFetch, netById,
                   traffic, now>>

\* connectToTarget throws: attach() reports the error through onTextLog and
\* returns false, attachByIndex releases its guard
AttachFailed(err) ==
    /\ connecting # NoTarget
    /\ \E line \in {<<"[">> \o formatTime(now) \o <<"] ">> \o err} :
          /\ logNextNodeId + Len(splitLines(line)) <= LogIdBound
          /\ \E r \in {appendTextLog(logTree, logNextNodeId, line)} :
                /\ CommitLog([LogSt EXCEPT !.tree = r.tree])
                /\ logNextNodeId' = r.counter
                /\ appended' = [appended EXCEPT !.log = @ \o r.ids]
    /\ isAttachingRef' = FALSE
    /\ connecting' = NoTarget
    /\ lastOp' = Op("append", "log")
    /\ UNCHANGED <<clientRef, attachedIndex, logSearchOpen, logIsExpanding, logFetch,
                   netSearchOpen, netNextNodeId, netIsExpanding, netFetch, netById,
                   traffic, now>>

\* connectToTarget returns a client: attach() keeps it, enables the domains (a
\* failure of which is one more text line) and returns true; attachByIndex
\* records the target, logs it and shows the logs tab
AttachConnected(enableFails) ==
    /\ connecting # NoTarget
    /\ \E first \in {IF enableFails
                      THEN appendTextLog(logTree, logNextNodeId,
                               <<"[">> \o formatTime(now) \o <<"] ", "[enable] ", "err">>)
                      ELSE [tree |-> logTree, counter |-> logNextNodeId, ids |-> <<>>]} :
          \E r \in {appendTextLog(first.tree, first.counter,
                                   <<"[attached] ">> \o Title(connecting))} :
             /\ r.counter <= LogIdBound
             /\ Commit([LogSt EXCEPT !.tree = r.tree], NetSt,
                       [Ui EXCEPT !.focus = "right", !.rightTab = "logs"])
             /\ logNextNodeId' = r.counter
             /\ appended' = [appended EXCEPT !.log = @ \o first.ids \o r.ids]
    /\ clientRef' = TRUE
    /\ attachedIndex' = connecting
    /\ isAttachingRef' = FALSE
    /\ connecting' = NoTarget
    /\ lastOp' = Op("append", "log")
    /\ UNCHANGED <<logSearchOpen, logIsExpanding, logFetch,
                   netSearchOpen, netNextNodeId, netIsExpanding, netFetch, netById,
                   traffic, now>>

\* handleDetach: the user presses d
HandleDetach ==
    /\ MainKeys
    /\ clientRef' = FALSE
    /\ attachedIndex' = NoTarget
    /\ lastOp' = Op("detach", "none")
    /\ UNCHANGED <<logVars, netVars, uiVars, isAttachingRef, connecting,
                   traffic, now, appended>>

\* the state after construction once the user has moved the focus to the right
\* panel (tab) and picked `tab` (l / n), with a target that produces the traffic `t`
Start(tab, t) ==
    /\ logTree = <<>> /\ followTail = TRUE /\ logScrollTop = 0
    /\ selectedLogNodeId = NoId /\ logSearchOpen = FALSE /\ logSearchQuery = <<>>
    /\ logNextNodeId = 0 /\ logIsExpanding = FALSE /\ logFetch = {}
    /\ netTree = <<>> /\ followNetTail = TRUE /\ netScrollTop = 0
    /\ selectedNetNodeId = NoId /\ netSearchOpen = FALSE /\ netSearchQuery = <<>>
    /\ netNextNodeId = 0 /\ netIsExpanding = FALSE /\ netFetch = {}
    /\ netById = <<>>
    /\ focus = "right" /\ rightTab = tab /\ evalOpen = FALSE
    /\ clientRef = TRUE /\ attachedIndex = 0 /\ isAttachingRef = FALSE
    /\ connecting = NoTarget
    /\ traffic = t
    /\ now = 0
    /\ lastOp = NoOp /\ appended = [log |-> <<>>, net |-> <<>>]

\* console and log events of the target
LogEvents ==
    /\ traffic \in {"log", "both"}
    /\ \/ \E line \in TextLines : AppendTextLog(line)
       \/ \E label \in EntryLabels, args \in EntryArgs : AppendEntryLog(label, args)

\* one console call of a target that logs objects
LogCalls ==
    /\ traffic = "calls"
    /\ logTree = <<>>
    /\ \E label \in EntryLabels, args \in CallArgs : AppendEntryLog(label, args)

\* the requests the target starts
NetRequests ==
    /\ traffic \in {"net", "both"}
    /\ \E rid \in Rids, patch \in RequestPatches : NetworkRequest(rid, patch)

\* the responses the target receives
NetResponses ==
    /\ traffic \in {"net", "both"}
    /\ \E rid \in Rids, patch \in ResponsePatches : NetworkResponse(rid, patch)

\* the ends of the target's requests
NetCompletions ==
    /\ traffic \in {"net", "both"}
    /\ \E rid \in Rids :
          \/ \E patch \in FinishedPatches : NetworkFinished(rid, patch)
          \/ \E patch \in FailedPatches : NetworkFailed(rid, patch)

\* network events of the target
NetEvents == NetRequests \/ NetResponses \/ NetCompletions

\* the answers of the protocol to the fetches of the log store
LogFetchResults ==
    \E f \in logFetch :
        \/ \E items \in PropertyLists, time \in now..Min(now + 1, MaxNow) :
               LogFetchResolved(f, items, time)
        \/ LogFetchRejected(f)

\* the answers of the protocol to the fetches of the network store
NetFetchResults ==
    \E f \in netFetch :
        \/ \E body \in Bodies : NetFetchResolved(f, body)
        \/ NetFetchRejected(f)

\* the keys that move the selection of the logs tab
LogMoves == \E delta \in Steps : MoveLogSelection(delta)

\* the search prompt of the logs tab
LogSearchKeys ==
    \/ OpenLogSearch
    \/ \E q \in LogQueries : TypeLogQuery(q)
    \/ CloseLogSearch

\* the search prompt of the network tab
NetSearchKeys ==
    \/ OpenNetSearch
    \/ \E q \in NetQueries : TypeNetQuery(q)
    \/ CloseNetSearch

\* a session on one tab whose target produces that tab's traffic
Init == Start("logs", "log") \/ Start("network", "net")

Next ==
    \/ LogEvents
    \/ LogFetchResults
    \/ ToggleExpandSelected
    \/ LogMoves
    \/ FollowLog
    \/ ClearLogs
    \/ NetEvents
    \/ NetFetchResults
    \/ ToggleNetExpandSelected
    \/ FollowNet
    \/ ClearNetwork

\* the two stores under their traffic, expansion, and the keys of their tabs
Spec == Init /\ [][Next]_vars

InitLog == Start("logs", "log")

NextLog ==
    \/ LogEvents
    \/ LogFetchResults
    \/ ToggleExpandSelected
    \/ LogMoves
    \/ FollowLog
    \/ ClearLogs

\* the log store under console traffic and the keys of the logs tab
SpecLog == InitLog /\ [][NextLog]_vars

NextSearch ==
    \/ LogEvents
    \/ LogFetchResults
    \/ ToggleExpandSelected
    \/ LogSearchKeys
    \/ NetRequests
    \/ NetResponses
    \/ ToggleNetExpandSelected
    \/ NetSearchKeys

\* the two stores under requests, responses and console traffic, expansion,
\* and the search prompts
SpecSearch == Init /\ [][NextSearch]_vars

InitBoth == Start("logs", "both")

NextBoth ==
    \/ logTree = <<>> /\ LogEvents
    \/ LogFetchResults
    \/ ToggleExpandSelected
    \/ netTree = <<>> /\ NetEvents
    \/ NetFetchResults
    \/ ToggleNetExpandSelected
    \/ \E tab \in {"logs", "network"} : SetRightTab(tab)
    \/ SwitchFocus

\* a target that logs once and issues one request, watched on both tabs
SpecBoth == InitBoth /\ [][NextBoth]_vars

InitCalls == Start("logs", "calls")

NextCalls ==
    \/ LogCalls
    \/ LogFetchResults
    \/ ToggleExpandSelected
    \/ LogMoves
    \/ CollapseSelectedRegion

\* one console call with object arguments, explored on the logs tab
SpecCalls == InitCalls /\ [][NextCalls]_vars

\* the keys that move the selection of the network tab
NetMoves == \E delta \in Steps : MoveNetSelection(delta)

\* the eval prompt
EvalKeys == OpenEval \/ CloseEval

NextView ==
    \/ LogEvents
    \/ ToggleExpandSelected
    \/ CollapseSelectedRegion
    \/ LogMoves
    \/ FollowLog
    \/ LogSearchKeys
    \/ ClearLogs
    \/ NetRequests
    \/ ToggleNetExpandSelected
    \/ NetMoves
    \/ ClearNetwork
    \/ EvalKeys

\* the view of one tab under traffic and every key that changes what it shows
SpecView == Init /\ [][NextView]_vars

\* the text lines of a target that logs objects
LogTexts ==
    /\ traffic = "calls"
    /\ \E line \in TextLines : AppendTextLog(line)

\* while a body fetch is in flight the cap of the network id counter leaves the
\* id its completion needs
NetRoom == netFetch' # {} => netNextNodeId' < MaxNetId

\* the one request of a target whose response body is read
BodyRequests ==
    /\ traffic = "body"
    /\ netTree = <<>>
    /\ \E patch \in RequestPatches : NetworkRequest(1, patch)

\* the response and the end of that request
BodyResponses ==
    /\ traffic = "body"
    /\ \/ \E patch \in ResponsePatches : NetworkResponse(1, patch)
       \/ \E patch \in FinishedPatches : NetworkFinished(1, patch)

\* the keys k and j on the network tab
BodyMoves == \E delta \in {-1, 1} : MoveNetSelection(delta)

\* the selected line is the request, its response or its response body
OnBody ==
    /\ hasNodeById(netTree, selectedNetNodeId)
    /\ \/ findNodeById(netTree, selectedNetNodeId).net.role \in {"request", "response"}
       \/ /\ findNodeById(netTree, selectedNetNodeId).net.role = "body"
          /\ findNodeById(netTree, selectedNetNodeId).net.which = "none"

InitBody == Start("network", "body")

NextBody ==
    \/ BodyRequests
    \/ BodyResponses
    \/ OnBody /\ ToggleNetExpandSelected
    \/ NetFetchResults
    \/ BodyMoves

\* one request whose response body is opened, closed and re-opened
SpecBody == InitBody /\ [][NextBody]_vars

\* the events of two requests that take turns in a store of NET_MAX_ITEMS nodes
EvictEvents ==
    /\ traffic = "evict"
    /\ \E rid \in Rids :
          \/ \E patch \in RequestPatches : NetworkRequest(rid, patch)
          \/ \E patch \in ResponsePatches : NetworkResponse(rid, patch)
          \/ \E patch \in FailedPatches : NetworkFailed(rid, patch)

InitEvict == Start("network", "evict")

NextEvict ==
    \/ EvictEvents
    \/ ToggleNetExpandSelected
    \/ ClearNetwork

\* requests that evict each other's nodes and come back
SpecEvict == InitEvict /\ [][NextEvict]_vars

\* the events of an attached target that logs texts and, once, an object
SessionEvents ==
    /\ traffic = "session"
    /\ clientRef
    /\ \/ \E line \in {<<"a">>} : AppendTextLog(line)
       \/ logTree = <<>> /\ AppendEntryLog(<<"log">>, <<Obj1>>)

\* the attaches the user starts
SessionAttaches == \E index \in 0..NumTargets : AttachByIndex(index)

\* the outcomes of connectToTarget
SessionConnects ==
    \/ \E err \in ConnectErrors : AttachFailed(err)
    \/ \E enableFails \in BOOLEAN : AttachConnected(enableFails)

InitSession == Start("logs", "session")

NextSession ==
    \/ SessionEvents
    \/ SessionAttaches
    \/ SessionConnects
    \/ HandleDetach
    \/ SwitchFocus
    \/ clientRef /\ ToggleExpandSelected
    \/ LogFetchResults
    \/ ClearLogs

\* a session that is detached and attached again, with attaches that fail, while
\* the log store expands values
SpecSession == InitSession /\ [][NextSession]_vars

NextLate ==
    \/ SessionEvents
    \/ HandleDetach
    \/ clientRef /\ ToggleExpandSelected
    \/ LogFetchResults
    \/ ClearLogs

\* a session that is detached, or whose log store is cleared, while the log
\* store expands values; the protocol answers every fetch
SpecLate ==
    /\ InitSession /\ [][NextLate]_vars
    /\ WF_vars(LogFetchResults)

\* the keys that open and close the three prompts
PromptKeys ==
    \/ OpenLogSearch \/ CloseLogSearch
    \/ OpenNetSearch \/ CloseNetSearch
    \/ EvalKeys

NextPrompt ==
    \/ SessionAttaches
    \/ SessionConnects
    \/ HandleDetach
    \/ SwitchFocus
    \/ \E tab \in {"logs", "network"} : SetRightTab(tab)
    \/ PromptKeys

\* attaches that complete while the user moves between the panels and tabs
\* and opens the prompts
SpecPrompt == InitSession /\ [][NextPrompt]_vars

InitFair == Start("logs", "calls") \/ Start("network", "net")

NextFair ==
    \/ LogCalls
    \/ LogTexts
    \/ ToggleExpandSelected
    \/ LogFetchResults
    \/ ClearLogs
    \/ NetRequests
    \/ NetResponses /\ NetRoom
    \/ ToggleNetExpandSelected /\ NetRoom
    \/ NetFetchResults
    \/ ClearNetwork

\* expansion under eviction and clears, where the protocol answers every fetch:
\* a fetch in flight is resolved or rejected eventually
SpecFair ==
    /\ InitFair /\ [][NextFair]_vars
    /\ WF_vars(LogFetchResults) /\ WF_vars(NetFetchResults)

-----------------------------------------------------------------------------
(* Properties *)

\* every node of a forest, parents before children
RECURSIVE AllNodes(_)
AllNodes(nodes) ==
    IF nodes = <<>> THEN <<>>
    ELSE <<Head(nodes)>> \o AllNodes(Head(nodes).children) \o AllNodes(Tail(nodes))

\* root nodes plus all nested children
NodeCount(tree) == Len(AllNodes(tree))

RootIds(tree) == [i \in 1..Len(tree) |-> tree[i].id]

\* the last min(n, Len(a)) elements of a, in order
Newest(a, n) ==
    [i \in 1..(IF Len(a) < n THEN Len(a) ELSE n) |->
        a[Len(a) - (IF Len(a) < n THEN Len(a) ELSE n) + i]]

\* after an append made with follow on, the view `st` of `store` shows the tail
FollowsTail(store, st) ==
    (lastOp.op = "append" /\ lastOp.store = store /\ st.follow /\ Len(Flat(store, st)) > 0)
    => /\ st.sel = Flat(store, st)[Len(Flat(store, st))].nodeId
       /\ st.top = Max(0, Len(Flat(store, st)) - visibleLogLines(Ui))

\* C1: in either store, after an append of a top-level line made while follow is
\* on, at any store size, the selected node id is the id of the last flattened
\* line and scrollTop is max(0, totalLines - visibleLines).
C1_FollowTailAfterAppend == FollowsTail("log", LogSt) /\ FollowsTail("net", NetSt)

\* the node `id` of the log forest holds the property nodes of a completed fetch
FetchedProperties(tree, id) ==
    /\ hasNodeById(tree, id)
    /\ ~findNodeById(tree, id).loading
    /\ Len(findNodeById(tree, id).children) > 0
    /\ \A i \in 1..Len(findNodeById(tree, id).children) :
           findNodeById(tree, id).children[i].kind = "prop"

\* C2: a node whose first expansion fetched its children successfully is never
\* fetched again: no toggle starts a fetch for a log node that already holds the
\* property nodes of a completed fetch, nor for a network body whose record
\* already holds the response body.
C2_NoRefetch ==
    [][/\ \A f \in logFetch' \ logFetch : ~FetchedProperties(logTree, f.nodeId)
       /\ \A f \in netFetch' \ netFetch :
              getNetRecord(netById, f.rid)["responseBody"] = <<>>]_vars

\* C3: while a fetch is in flight in a store, a toggle in that store is dropped:
\* the forest (every expanded flag, loading flag and child list), the set of
\* fetches in flight and the id counter are unchanged, and the guard stays set.
C3_SingleFlightDrop ==
    [][/\ (lastOp'.op = "toggle" /\ lastOp'.store = "log" /\ logFetch # {})
          => /\ logTree' = logTree /\ logFetch' = logFetch
             /\ logNextNodeId' = logNextNodeId /\ logIsExpanding'
       /\ (lastOp'.op = "toggle" /\ lastOp'.store = "net" /\ netFetch # {})
          => /\ netTree' = netTree /\ netFetch' = netFetch
             /\ netNextNodeId' = netNextNodeId /\ netIsExpanding']_vars

\* a toggle was just dropped while the selected line is a collapsed expandable
\* entry other than the node whose fetch is in flight
C3_Witness ==
    /\ lastOp.op = "toggle" /\ lastOp.store = "log" /\ lastOp.dropped
    /\ logFetch # {}
    /\ hasNodeById(logTree, selectedLogNodeId)
    /\ findNodeById(logTree, selectedLogNodeId).kind = "entry"
    /\ logExpandable(findNodeById(logTree, selectedLogNodeId))
    /\ ~findNodeById(logTree, selectedLogNodeId).expanded
    /\ \A f \in logFetch : f.nodeId # ArgId(selectedLogNodeId, 0)

\* C4: each store has at most one fetch in flight, and a toggle of a store is
\* dropped only when that store's own fetch is in flight.
C4_GuardPerStore ==
    /\ Cardinality(logFetch) <= 1
    /\ Cardinality(netFetch) <= 1
    /\ (lastOp.op = "toggle" /\ lastOp.dropped /\ lastOp.store = "log") => logFetch # {}
    /\ (lastOp.op = "toggle" /\ lastOp.dropped /\ lastOp.store = "net") => netFetch # {}

\* a network toggle has just started a fetch while a log fetch is in flight
C4_Witness ==
    /\ lastOp.op = "toggle" /\ lastOp.store = "net" /\ lastOp.fetched /\ ~lastOp.dropped
    /\ logFetch # {} /\ netFetch # {}

\* C5: without a clear in between, a store's roots are the last min(N, total)
\* appended nodes in the order they were appended.
C5_CapFifo ==
    /\ RootIds(logTree) = Newest(appended.log, LOG_MAX_LINES)
    /\ RootIds(netTree) = Newest(appended.net, NET_MAX_ITEMS)

\* N+1 lines were appended to the log store and the oldest one is gone
C5_Witness ==
    /\ lastOp.op = "append" /\ lastOp.store = "log"
    /\ Len(appended.log) = LOG_MAX_LINES + 1
    /\ Len(logTree) = LOG_MAX_LINES
    /\ \A i \in 1..Len(logTree) : logTree[i].id # appended.log[1]

\* C6 as stated: after an append, the number of nodes of a store, nested children
\* included, does not exceed the store's cap.
C6_TotalNodeCountBounded ==
    /\ (lastOp.op = "append" /\ lastOp.store = "log") => NodeCount(logTree) <= LOG_MAX_LINES
    /\ (lastOp.op = "append" /\ lastOp.store = "net") => NodeCount(netTree) <= NET_MAX_ITEMS

\* C6: the cap bounds the number of root nodes: a store holds min(N, total
\* appended) roots, whatever the number of nested children.
C6_RootCountBounded ==
    /\ Len(logTree) = (IF Len(appended.log) < LOG_MAX_LINES THEN Len(appended.log)
                       ELSE LOG_MAX_LINES)
    /\ Len(netTree) = (IF Len(appended.net) < NET_MAX_ITEMS THEN Len(appended.net)
                       ELSE NET_MAX_ITEMS)

\* after an append the log store is at its cap in roots and above it in nodes
C6_Witness ==
    /\ lastOp.op = "append" /\ lastOp.store = "log"
    /\ Len(logTree) = LOG_MAX_LINES
    /\ NodeCount(logTree) > LOG_MAX_LINES

\* the patches the handlers build
Patches ==
    RequestPatches \cup ResponsePatches \cup FinishedPatches \cup FailedPatches
    \cup {[responseBody |-> <<body>>] : body \in Bodies}

\* the record of `rid` before a step, and whether the step merged `patch` into it
RecordBefore(rid) == IF rid \in DOMAIN netById THEN netById[rid] ELSE EmptyRecord
MergedInto(rid, patch) ==
    \A k \in RecordKeys :
        netById'[rid][k] = IF k \in DOMAIN patch THEN patch[k] ELSE RecordBefore(rid)[k]

\* the record of `rid` holds method, url, status and byte count together
FullRecord(rid) ==
    /\ rid \in DOMAIN netById
    /\ netById[rid]["method"] = <<<<"GET">>>>
    /\ netById[rid]["url"] = <<<<"http://a">>>>
    /\ netById[rid]["status"] = <<200>>
    /\ netById[rid]["encodedDataLength"] = <<512>>
    /\ netById[rid]["errorText"] = <<>>

\* the root of `rid` is in the forest and its label contains GET http://a 200
LabelShows(rid) ==
    /\ hasNodeById(netTree, NetId(rid))
    /\ includes(findNodeById(netTree, NetId(rid)).label,
                <<"GET", " ", "http://a", " ", "200">>)

\* C7: every change of a request's record is the merge of one patch into it (a
\* key the patch does not mention keeps its value), in any arrival order; and a
\* record that holds GET, http://a, 200 and 512 together has a root whose label
\* contains `GET http://a 200`.
C7_PatchMerge ==
    /\ [][\/ netById' = <<>>
          \/ \A rid \in DOMAIN netById' :
                \/ rid \in DOMAIN netById /\ netById'[rid] = netById[rid]
                \/ \E patch \in Patches : MergedInto(rid, patch)]_vars
    /\ [](\A rid \in Rids :
             (FullRecord(rid) /\ hasNodeById(netTree, NetId(rid))) => LabelShows(rid))

\* request-started, response-received and loading-finished arrived for a request
C7_Witness == \E rid \in Rids : FullRecord(rid) /\ LabelShows(rid)

\* a root's own text matches the lower-cased query q
RootMatches(store, n, q) ==
    \/ includes(toLowerCase(n.label \o <<" ">> \o n.text), q)
    \/ store = "log" /\ n.kind = "entry" /\ includes(toLowerCase(formatArgs(n.args)), q)

\* the lines of the matching roots, each followed by its visible descendants
RECURSIVE MatchingLines(_, _, _)
MatchingLines(store, tree, q) ==
    IF tree = <<>> THEN <<>>
    ELSE (IF RootMatches(store, Head(tree), q)
          THEN flattenLogTree(<<Head(tree)>>, NoId, 0) ELSE <<>>)
         \o MatchingLines(store, Tail(tree), q)

\* C8: with a non-empty query, the flattened sequence is the matching roots,
\* each followed by its descendants according to expand-state; a root that does
\* not match contributes no line, and descendants are not filtered.
C8_RootOnlyFilter ==
    /\ trim(logSearchQuery) # <<>>
       => flatLogs = MatchingLines("log", logTree, toLowerCase(trim(logSearchQuery)))
    /\ trim(netSearchQuery) # <<>>
       => flatNet = MatchingLines("net", netTree, toLowerCase(trim(netSearchQuery)))

\* the query matches a visible descendant of an expanded log root that does not
\* match itself, and the root is not in the view
C8_Witness ==
    /\ trim(logSearchQuery) # <<>>
    /\ \E i \in 1..Len(logTree) :
          /\ logTree[i].expanded
          /\ ~RootMatches("log", logTree[i], toLowerCase(trim(logSearchQuery)))
          /\ \E j \in 2..Len(flattenLogTree(<<logTree[i]>>, NoId, 0)) :
                includes(toLowerCase(flattenLogTree(<<logTree[i]>>, NoId, 0)[j].text),
                         toLowerCase(trim(logSearchQuery)))
          /\ \A j \in 1..Len(flatLogs) : flatLogs[j].nodeId # logTree[i].id

\* C9: for every node of either store, the expandable flag of its flattened line
\* is true exactly when the expansion controller treats the node as expandable.
C9_ExpandableAgreement ==
    /\ \A i \in 1..Len(AllNodes(logTree)) :
          flatExpandable(AllNodes(logTree)[i]) <=> logExpandable(AllNodes(logTree)[i])
    /\ \A i \in 1..Len(AllNodes(netTree)) :
          flatExpandable(AllNodes(netTree)[i]) <=> netExpandable(AllNodes(netTree)[i])

\* the nodes of a forest have pairwise distinct ids
UniqueIds(tree) ==
    \A i, j \in 1..Len(AllNodes(tree)) :
        i # j => AllNodes(tree)[i].id # AllNodes(tree)[j].id

\* C10: in every reachable state the nodes of a store's forest, at every depth,
\* have pairwise distinct ids.
C10_UniqueIds == UniqueIds(logTree) /\ UniqueIds(netTree)

\* the forest with its first node `id`, in depth-first pre-order, replaced by `new`
RECURSIVE ReplaceFirst(_, _, _)
ReplaceFirst(nodes, id, new) ==
    IF nodes = <<>> THEN <<>>
    ELSE IF Head(nodes).id = id THEN <<new>> \o Tail(nodes)
    ELSE IF hasNodeById(Head(nodes).children, id)
    THEN <<[Head(nodes) EXCEPT !.children = ReplaceFirst(@, id, new)]>> \o Tail(nodes)
    ELSE <<Head(nodes)>> \o ReplaceFirst(Tail(nodes), id, new)

\* the child lists a completed property fetch leaves: the fetched property nodes,
\* or one meta child with the failure message
LogOutcomes ==
    {getProperties(items, time) : items \in PropertyLists, time \in 0..MaxNow}
    \cup {<<MetaNode(NId(logNextNodeId + 1), <<"[props] ! ", "err">>)>>}

\* the child lists a completed body fetch leaves: the formatted body, or one meta
\* child with the failure message
NetOutcomes ==
    {bodyChildren(b.body, b.base64Encoded, netNextNodeId).nodes : b \in Bodies}
    \cup {<<MetaNode(NetNId(netNextNodeId + 1), <<"[body] ! ", "err">>)>>}

\* the step turns `tree` into `next` by giving the node `id` one of the child
\* lists `outcomes` and loading = false, and changes no other node
Completes(tree, next, id, outcomes) ==
    \E ch \in outcomes :
        next = ReplaceFirst(tree, id, [findNodeById(tree, id)
                                       EXCEPT !.loading = FALSE, !.children = ch])

\* C12: when a fetch in flight completes and its node still exists, the node's
\* loading flag becomes false and its children become exactly the fetched set
\* (success) or exactly one meta child with the failure message (failure), and no
\* node outside the path to that node changes.
C12_FetchOutcome ==
    [][/\ \A f \in logFetch \ logFetch' :
              hasNodeById(logTree, f.nodeId)
              => Completes(logTree, logTree', f.nodeId, LogOutcomes)
       /\ \A f \in netFetch \ netFetch' :
              hasNodeById(netTree, f.nodeId)
              => Completes(netTree, netTree', f.nodeId, NetOutcomes)]_vars

\* the largest scroll offset of a view of `len` lines
MaxTop(len) == Max(0, len - visibleLogLines(Ui))

\* C11: in every settled state of either store, after appends, evictions,
\* expansion and collapse, filter changes, selection moves, clears and changes of
\* the viewport height, scrollTop lies in [0, max(0, totalLines - visibleLines)].
C11_ScrollRange ==
    /\ logScrollTop >= 0 /\ logScrollTop <= MaxTop(Len(flatLogs))
    /\ netScrollTop >= 0 /\ netScrollTop <= MaxTop(Len(flatNet))

\* the eval prompt was just closed, the viewport grew by a line, and the log view
\* is scrolled to its new largest offset with follow off
C11_Witness ==
    /\ lastOp.op = "eval" /\ ~evalOpen
    /\ ~followTail
    /\ logScrollTop > 0 /\ logScrollTop = MaxTop(Len(flatLogs))

\* some node of the forest is marked loading
AnyLoading(tree) == \E i \in 1..Len(AllNodes(tree)) : AllNodes(tree)[i].loading

\* C13: if every issued fetch eventually resolves or rejects, every expansion
\* that took the in-flight guard eventually releases it and no node stays marked
\* loading forever, also when the node was evicted or the store was cleared while
\* the fetch was in flight; the store then accepts expansion requests again.
C13_GuardReleased ==
    /\ []<>(~logIsExpanding /\ logFetch = {} /\ ~AnyLoading(logTree))
    /\ []<>(~netIsExpanding /\ netFetch = {} /\ ~AnyLoading(netTree))

\* a body fetch completed after its request node had left the store: the record
\* holds the body, no root of the request is in the forest, the guard is free
C13_Witness ==
    /\ ~netIsExpanding /\ netFetch = {}
    /\ \E rid \in DOMAIN netById :
          /\ netById[rid]["responseBody"] # <<>>
          /\ ~hasNodeById(netTree, NetId(rid))

\* the text of the first child of node `id`, <<>> when it has no child
FirstChildText(tree, id) ==
    IF Len(findNodeById(tree, id).children) = 0 THEN <<>>
    ELSE findNodeById(tree, id).children[1].text

\* C14: once a response-body fetch succeeds the body is stored on the request's
\* record, and while the record exists it keeps that body and no expand or
\* collapse of the request's body node starts another fetch, also after the body
\* node was rebuilt by later network events.
C14_BodyCached ==
    [][/\ \A f \in netFetch' \ netFetch :
              getNetRecord(netById, f.rid)["responseBody"] = <<>>
       /\ \A f \in netFetch \ netFetch' :
              (/\ hasNodeById(netTree', f.nodeId)
               /\ FirstChildText(netTree', f.nodeId) # <<"[body] ! ", "err">>)
              => getNetRecord(netById', f.rid)["responseBody"] # <<>>
       /\ \A rid \in (DOMAIN netById) \cap (DOMAIN netById') :
              netById[rid]["responseBody"] # <<>>
              => netById'[rid]["responseBody"] = netById[rid]["responseBody"]]_vars

\* the body node of a request whose record holds the body and the byte count of
\* loading-finished was just expanded without a fetch, and shows the body
C14_Witness ==
    /\ lastOp.op = "toggle" /\ lastOp.store = "net" /\ ~lastOp.fetched /\ ~lastOp.dropped
    /\ netFetch = {}
    /\ hasNodeById(netTree, selectedNetNodeId)
    /\ findNodeById(netTree, selectedNetNodeId).net.role = "body"
    /\ findNodeById(netTree, selectedNetNodeId).net.which = "none"
    /\ findNodeById(netTree, selectedNetNodeId).expanded
    /\ Len(findNodeById(netTree, selectedNetNodeId).children) > 1
    /\ \E rid \in DOMAIN netById :
          /\ rid = findNodeById(netTree, selectedNetNodeId).net.requestId
          /\ netById[rid]["responseBody"] # <<>>
          /\ netById[rid]["encodedDataLength"] # <<>>

\* the positions of the root nodes of request `rid`
Roots(tree, rid) == {i \in 1..Len(tree) : tree[i].id = NetId(rid)}

\* the label of a request from the fields of its record, missing ones rendered
\* as empty and a missing start time rendered as `missingTime`
labelWith(byId, rid, missingTime) ==
    LET r == getNetRecord(byId, rid)
        tail == IF Truthy(r["errorText"]) THEN <<" ", "x", " ">> \o r["errorText"][1]
                ELSE IF r["status"] # <<>> THEN <<" ", ToString(r["status"][1])>>
                ELSE <<>>
        time == IF r["startTimestamp"] # <<>> THEN formatTime(r["startTimestamp"][1])
                ELSE missingTime
    IN trimEnd(<<"[">> \o time \o <<"]", " ">> \o StrOf(r["method"]) \o <<" ">>
               \o StrOf(r["url"]) \o tail)

\* the step of the first event for request `rid`
FirstEvent(rid) ==
    /\ rid \notin DOMAIN netById /\ rid \in DOMAIN netById'
    /\ netFetch' = netFetch

\* a root was created for a request that has one
CreatedAgain(rid) ==
    /\ Roots(netTree, rid) # {}
    /\ Len(appended'.net) > Len(appended.net)
    /\ appended'.net[Len(appended'.net)] = NetId(rid)

\* after the first event for a request the store holds one root of it whose
\* label renders a missing start time as `missingTime`; no root is created for
\* a request that has one and no state holds two roots of a request
Projection(missingTime) ==
    /\ \A rid \in Rids : Cardinality(Roots(netTree', rid)) <= 1
    /\ \A rid \in Rids : ~CreatedAgain(rid)
    /\ \A rid \in Rids :
          FirstEvent(rid)
          => /\ Cardinality(Roots(netTree', rid)) = 1
             /\ \A i \in Roots(netTree', rid) :
                    netTree'[i].label = labelWith(netById', rid, missingTime)

\* C15 as stated: after the first event of any kind for a request id the network
\* store holds exactly one root node net:<requestId>, labelled from the fields
\* known so far with every missing field rendered as empty, and no state holds
\* two roots of one request id.
C15_OneRoot == [][Projection(<<>>)]_vars

\* C15, amended: the same, with a missing start time rendered as the clock text
\* of the moment of labelling and every other missing field rendered as empty.
C15_OneRootClock == [][Projection(formatTime(now'))]_vars

\* a request first heard of by its response: one root, labelled with the clock
\* and the status, and nothing for the method and the url
C15_Witness ==
    \E rid \in DOMAIN netById :
        /\ netById[rid]["startTimestamp"] = <<>>
        /\ netById[rid]["method"] = <<>>
        /\ netById[rid]["status"] # <<>>
        /\ Cardinality(Roots(netTree, rid)) = 1
        /\ \A i \in Roots(netTree, rid) :
               netTree[i].label = <<"[">> \o formatTime(now) \o <<"]", " ", " ", " ", "200">>

\* the search prompt of a store opens, or its query changes to a text that is
\* not empty after trimming
SearchEngaged(open, openNext, query, queryNext) ==
    \/ openNext /\ ~open
    \/ queryNext # query /\ trim(queryNext) # <<>>

\* C16: whenever the search prompt of a store is opened or its query changes to
\* a value that is non-empty after trimming, that store's followTail becomes
\* false and the other store's followTail is unchanged.
C16_SearchStopsFollow ==
    [][/\ SearchEngaged(logSearchOpen, logSearchOpen', logSearchQuery, logSearchQuery')
          => ~followTail' /\ followNetTail' = followNetTail
       /\ SearchEngaged(netSearchOpen, netSearchOpen', netSearchQuery, netSearchQuery')
          => ~followNetTail' /\ followTail' = followTail]_vars

\* a query typed into the log search prompt over a non-empty log: the log store
\* no longer follows, the network store still does
C16_Witness ==
    /\ logSearchOpen /\ logSearchQuery = <<"b">>
    /\ Len(logTree) > 0
    /\ ~followTail /\ followNetTail

\* the id is the node id of a line of the view
InView(flat, id) == \E i \in 1..Len(flat) : flat[i].nodeId = id

\* idx resolves the selection sel over the view flat
Resolves(flat, sel, idx) ==
    /\ (idx = -1) <=> (Len(flat) = 0)
    /\ Len(flat) > 0 => idx \in 0..(Len(flat) - 1)
    /\ InView(flat, sel) => flat[idx + 1].nodeId = sel
    /\ Len(flat) > 0 /\ ~InView(flat, sel) => idx = Len(flat) - 1

\* C17: in every state the active selection index of a store is the position of
\* selectedNodeId in the current flattened sequence when it is present there,
\* otherwise the last index; it is -1 exactly when the flattened sequence is
\* empty and otherwise lies in [0, length-1].
C17_SelectionResolved ==
    /\ Resolves(flatLogs, selectedLogNodeId, selectedLogIndex)
    /\ Resolves(flatNet, selectedNetNodeId, selectedNetIndex)

\* the selected id of the log store names a node that is no longer in a view of
\* several lines, and the selection shows on the last line
C17_Witness ==
    /\ selectedLogNodeId # NoId
    /\ ~InView(flatLogs, selectedLogNodeId)
    /\ Len(flatLogs) > 1
    /\ selectedLogIndex = Len(flatLogs) - 1

\* one more render of a view state whose dependencies did not change
Rerender(store, st) ==
    Only({Settle(store, d, st, Ui, RenderPasses) : d \in {Deps(store, st, Ui)}})

\* flattening the store once more leaves its forest and its lines as they are
Reflattens(store, st) ==
    \A r \in {Rerender(store, st)} : r.tree = st.tree /\ Flat(store, r) = Flat(store, st)

LoadingArg(arg) ==
    /\ arg.kind = "arg" /\ arg.expanded /\ arg.loading
    /\ Len(arg.children) = 1
    /\ arg.children[1].kind = "meta" /\ arg.children[1].text = LoadingProps

\* the step expands the collapsed log entry `id` of the forest
ExpandsEntry(id) ==
    /\ lastOp'.op = "toggle" /\ lastOp'.store = "log" /\ ~lastOp'.dropped
    /\ hasNodeById(logTree, id)
    /\ findNodeById(logTree, id).kind = "entry"
    /\ Len(findNodeById(logTree, id).args) > 0
    /\ ~findNodeById(logTree, id).expanded

\* what the expansion of the collapsed entry `entry` leaves behind
AutoExpanded(entry, after) ==
    /\ after.expanded
    /\ Len(after.children) = Len(entry.args)
    /\ IF Len(entry.args) = 1 /\ isObjectExpandable(entry.args[1])
       THEN /\ LoadingArg(after.children[1])
            /\ Cardinality(logFetch' \ logFetch) = 1
            /\ \A f \in logFetch' \ logFetch :
                   f.nodeId = ArgId(entry.id, 0) /\ f.key = entry.args[1].objectId
       ELSE /\ logFetch' = logFetch
            /\ \A i \in 1..Len(after.children) : ~after.children[i].loading

\* C19: expanding a collapsed log entry that has exactly one argument, and that
\* argument has a remote identity, in the same transition marks the entry
\* expanded, marks the argument child expanded and loading with a single loading
\* meta child, and issues exactly one property fetch for it; expanding an entry
\* with two or more arguments, or whose single argument has no remote identity,
\* issues no fetch.
C19_AutoExpand ==
    [][\A id \in {targetId(flatLogs, selectedLogNodeId) : k \in 1..Min(1, Len(flatLogs))} :
          ExpandsEntry(id)
          => \A entry \in {findNodeById(logTree, id)} :
             \A after \in {findNodeById(logTree', id)} : AutoExpanded(entry, after)]_vars

\* the one object argument of a console call was just auto-expanded: its entry
\* is expanded, the argument is loading, and its fetch is the one in flight
C19_Witness ==
    /\ lastOp.op = "toggle" /\ lastOp.store = "log" /\ lastOp.fetched
    /\ Len(logTree) = 1
    /\ logTree[1].kind = "entry" /\ logTree[1].expanded
    /\ Len(logTree[1].args) = 1
    /\ Len(logTree[1].children) = 1
    /\ LoadingArg(logTree[1].children[1])
    /\ Cardinality(logFetch) = 1
    /\ \A f \in logFetch : f.nodeId = ArgId(logTree[1].id, 0)

\* the forest with the first node of id `id` (depth-first pre-order) collapsed
\* and every other node as it is
RECURSIVE collapseFirst(_, _)
collapseFirst(nodes, id) ==
    IF nodes = <<>> THEN <<>>
    ELSE IF Head(nodes).id = id
    THEN <<[Head(nodes) EXCEPT !.expanded = FALSE]>> \o Tail(nodes)
    ELSE IF hasNodeById(Head(nodes).children, id)
    THEN <<[Head(nodes) EXCEPT !.children = collapseFirst(Head(nodes).children, id)]>>
         \o Tail(nodes)
    ELSE <<Head(nodes)>> \o collapseFirst(Tail(nodes), id)

\* the nearest expanded ancestor of line `id`, walking the recorded parent ids
\* upward; NoId when there is none
RECURSIVE NearestExpanded(_, _, _, _)
NearestExpanded(tree, flat, id, fuel) ==
    IF fuel = 0 \/ parentIdOf(flat, id) = NoId THEN NoId
    ELSE IF isExpandedById(tree, parentIdOf(flat, id)) THEN parentIdOf(flat, id)
    ELSE NearestExpanded(tree, flat, parentIdOf(flat, id), fuel - 1)

\* a region collapse took the view state `st` of a store with lines `flat` to
\* `next` with lines `flatNext`
RegionCollapsed(st, flat, next, flatNext) ==
    \A cur \in {IF Len(flat) = 0 THEN NoId ELSE targetId(flat, st.sel)} :
    \A up \in {NearestExpanded(st.tree, flat, cur, Len(flat))} :
        /\ IF isExpandedById(st.tree, cur)
           THEN next.tree = collapseFirst(st.tree, cur) /\ next.sel = st.sel
           ELSE IF up # NoId
           THEN next.tree = collapseFirst(st.tree, up) /\ next.sel = up
           ELSE next.tree = st.tree /\ next.sel = st.sel
        /\ Len(flatNext) > 0 => InView(flatNext, next.sel)

\* C20: a region collapse collapses the selected node when it is expanded and
\* keeps the selection; otherwise it collapses the nearest expanded ancestor found
\* by walking the recorded parent ids upward and selects it; without an expanded
\* ancestor nothing changes.  In every case it issues no fetch, no node other than
\* the collapsed one changes, and afterwards the selected id is in the flattened
\* sequence.
C20_RegionCollapse ==
    [][lastOp'.op = "collapse"
       => /\ logFetch' = logFetch /\ netFetch' = netFetch
          /\ lastOp'.store = "log"
             => \A st \in {LogSt'} : \A flat \in {Flat("log", st)} :
                   RegionCollapsed(LogSt, flatLogs, st, flat)
          /\ lastOp'.store = "net"
             => \A st \in {NetSt'} : \A flat \in {Flat("net", st)} :
                   RegionCollapsed(NetSt, flatNet, st, flat)]_vars

\* the toggle of a store with forest `tree`, lines `flat` and selection `sel`
\* acts on an expanded node, which it collapses
CollapsesByToggle(store, tree, flat, sel) ==
    /\ lastOp'.op = "toggle" /\ lastOp'.store = store /\ ~lastOp'.dropped
    /\ Len(flat) > 0
    /\ isExpandedById(tree, targetId(flat, sel))
    /\ IF store = "log" THEN logExpandable(findNodeById(tree, targetId(flat, sel)))
       ELSE netExpandable(findNodeById(tree, targetId(flat, sel)))

\* C21: a toggle that collapses an expanded node changes only that node's
\* expanded flag to false; its children and every descendant's content and
\* expand-state are retained unchanged and no fetch is issued.
C21_CollapseKeepsChildren ==
    [][/\ CollapsesByToggle("log", logTree, flatLogs, selectedLogNodeId)
          => /\ logTree' = collapseFirst(logTree, targetId(flatLogs, selectedLogNodeId))
             /\ logFetch' = logFetch
       /\ CollapsesByToggle("net", netTree, flatNet, selectedNetNodeId)
          => /\ netTree' = collapseFirst(netTree, targetId(flatNet, selectedNetNodeId))
             /\ netFetch' = netFetch]_vars

\* the part of a label after its time: method, url, and error text or status
RECURSIVE AfterTime(_)
AfterTime(label) ==
    IF label = <<>> THEN <<>>
    ELSE IF Head(label) = "]" THEN Tail(label)
    ELSE AfterTime(Tail(label))

\* C22: after every network event, the label of every projection node that
\* exists is the label computed from the current merged record of its request:
\* method, url, and the error text or else the status.
C22_LabelFresh ==
    \A rid \in DOMAIN netById :
        \A i \in Roots(netTree, rid) :
            AfterTime(netTree[i].label) = AfterTime(labelWith(netById, rid, <<>>))

\* a request that was answered and then failed: its label carries the method,
\* the url and the error text in place of the status
C22_Witness ==
    \E rid \in DOMAIN netById :
        /\ netById[rid]["method"] # <<>>
        /\ netById[rid]["status"] # <<>>
        /\ netById[rid]["errorText"] # <<>>
        /\ Roots(netTree, rid) # {}
        /\ \A i \in Roots(netTree, rid) :
               AfterTime(netTree[i].label)
                   = <<" ", "GET", " ", "http://a", " ", "x", " ", "failed">>

\* C23: a network event never gives children to a projection node that has
\* none; the children of a projection node are rebuilt from the record only if
\* the node already had a non-empty child list, so a request node that was never
\* expanded keeps an empty child list after any number of events.
C23_RebuildOnlyPopulated ==
    [][lastOp'.op # "toggle"
       => \A rid \in Rids :
          \A i \in Roots(netTree, rid) :
          \A j \in Roots(netTree', rid) :
              /\ Len(netTree[i].children) = 0 => Len(netTree'[j].children) = 0
              /\ netFetch' = netFetch /\ netTree'[j].children # netTree[i].children
                 => /\ Len(netTree[i].children) > 0
                    /\ netTree'[j].children
                           = buildNetChildren(netById', rid, netNextNodeId).nodes]_vars

\* a request that was sent, answered and finished while its node was never
\* expanded: the node has no children
C23_Witness ==
    \E rid \in DOMAIN netById :
        /\ netById[rid]["method"] # <<>>
        /\ netById[rid]["status"] # <<>>
        /\ netById[rid]["encodedDataLength"] # <<>>
        /\ Roots(netTree, rid) # {}
        /\ \A i \in Roots(netTree, rid) :
               Len(netTree[i].children) = 0 /\ ~netTree[i].expanded
        /\ netNextNodeId = 0

\* a move by `delta` lines took a view with lines `flat`, selection index `i`
\* and state `st` to the state `next`
Moved(flat, i, st, next, delta) ==
    IF Len(flat) = 0 THEN next = st
    ELSE \A n \in {clamp(i + delta, 0, Len(flat) - 1)} :
            /\ selectedIndex(flat, next.sel) = n
            /\ next.follow = (IF delta < 0 THEN FALSE ELSE n = Len(flat) - 1)

\* C24: on a non-empty flattened sequence, moving the selection up by one line
\* or one page sets followTail to false and selects index clamp(i - step, 0,
\* length-1); moving down by one line or one page selects index clamp(i + step,
\* 0, length-1) and sets followTail to true exactly when the new index is the
\* last line; on an empty sequence these moves change nothing.
C24_MoveSelection ==
    [][\A delta \in Steps :
          /\ MoveLogSelection(delta)
             => \A next \in {LogSt'} :
                   Moved(flatLogs, selectedLogIndex, LogSt, next, delta)
          /\ MoveNetSelection(delta)
             => \A next \in {NetSt'} :
                   Moved(flatNet, selectedNetIndex, NetSt, next, delta)]_vars

\* the lines of a store are those of its whole forest
Unfiltered(tree, flat) == flat = flattenLogTree(tree, NoId, 0)

\* C25: when the query of a store is empty or whitespace-only its flattened
\* sequence is the flattening of the whole unfiltered forest; a step that sets or
\* clears such a query over an unchanged forest leaves the sequence as it was,
\* so setting a query and clearing it restores the sequence it replaced.
C25_ClearRestores ==
    /\ [](/\ trim(logSearchQuery) = <<>> => Unfiltered(logTree, flatLogs)
          /\ trim(netSearchQuery) = <<>> => Unfiltered(netTree, flatNet))
    /\ [][/\ trim(logSearchQuery') = <<>> /\ logTree' = logTree
             => \A st \in {LogSt'} : \A flat \in {Flat("log", st)} :
                   flat = flattenLogTree(logTree, NoId, 0)
          /\ trim(netSearchQuery') = <<>> /\ netTree' = netTree
             => \A st \in {NetSt'} : \A flat \in {Flat("net", st)} :
                   flat = flattenLogTree(netTree, NoId, 0)]_vars

\* the query of the log store was replaced by a whitespace-only one over a log
\* of several roots, one of them expanded: the view shows every line again
C25_Witness ==
    /\ logSearchOpen /\ logSearchQuery = <<" ">>
    /\ Len(logTree) > 1
    /\ Len(flatLogs) > Len(logTree)
    /\ Len(filteredLogTree(logTree, <<"b">>)) < Len(logTree)
    /\ Unfiltered(logTree, flatLogs)

\* the ids of the nodes of a forest
RECURSIVE NodeIds(_)
NodeIds(nodes) ==
    IF nodes = <<>> THEN {}
    ELSE {Head(nodes).id} \cup NodeIds(Head(nodes).children) \cup NodeIds(Tail(nodes))

\* the position of the root-to-target path of `id` among the siblings `nodes`
PathIndex(nodes, id) ==
    CHOOSE k \in 1..Len(nodes) :
        /\ nodes[k].id = id \/ hasNodeById(nodes[k].children, id)
        /\ \A j \in 1..(k - 1) : nodes[j].id # id /\ ~hasNodeById(nodes[j].children, id)

\* `after` differs from `before` at most in the first node of id `id` and in the
\* children lists of its ancestors
RECURSIVE Frame(_, _, _)
Frame(before, after, id) ==
    IF ~hasNodeById(before, id) THEN after = before
    ELSE /\ Len(after) = Len(before)
         /\ \A k \in {PathIndex(before, id)} :
               /\ \A i \in 1..Len(before) : i # k => after[i] = before[i]
               /\ before[k].id # id
                  => /\ [after[k] EXCEPT !.children = before[k].children] = before[k]
                     /\ Frame(before[k].children, after[k].children, id)

\* C26: mutate(id, updater) on a forest that contains id changes only the target
\* node and the children lists of its ancestors; every node off the
\* root-to-target path, and the order of all siblings, is unchanged; when id is
\* not in the forest the forest is returned unchanged.  Stated of the collapsing
\* updater on every forest the stores reach and every id.
C26_PointMutation ==
    /\ \A id \in NodeIds(logTree) \cup {NoId} :
          Frame(logTree, collapseNode(logTree, id), id)
    /\ \A id \in NodeIds(netTree) \cup {NoId} :
          Frame(netTree, collapseNode(netTree, id), id)

\* the number of visible nodes of a forest: a node, and the visible nodes of its
\* children when it is expanded
RECURSIVE VisibleCount(_)
VisibleCount(nodes) ==
    IF nodes = <<>> THEN 0
    ELSE 1 + (IF Head(nodes).expanded THEN VisibleCount(Head(nodes).children) ELSE 0)
           + VisibleCount(Tail(nodes))

\* the lines of `flat` before line i that are less indented than it
Shallower(flat, i) == {j \in 1..(i - 1) : flat[j].indent < flat[i].indent}

\* the lines are a depth-first pre-order of the visible nodes of the roots
PreOrder(roots, flat) ==
    /\ Len(flat) = VisibleCount(roots)
    /\ [i \in 1..Len(roots) |-> roots[i].id]
           = [i \in 1..Len(roots) |->
                 flat[CHOOSE k \in 1..Len(flat) :
                          /\ flat[k].indent = 0
                          /\ Cardinality({j \in 1..k : flat[j].indent = 0}) = i].nodeId]
    /\ \A i \in 1..Len(flat) :
          /\ (flat[i].indent = 0) <=> (flat[i].parentId = NoId)
          /\ flat[i].indent = 0 => Shallower(flat, i) = {}
          /\ flat[i].indent > 0
             => /\ Shallower(flat, i) # {}
                /\ \A p \in {CHOOSE j \in Shallower(flat, i) :
                                  \A k \in Shallower(flat, i) : k <= j} :
                      /\ flat[p].nodeId = flat[i].parentId
                      /\ flat[i].indent = flat[p].indent + 1
                      /\ flat[p].expanded
          /\ i < Len(flat) /\ ~flat[i].expanded => flat[i + 1].indent <= flat[i].indent

\* C27: the flattened sequence is the depth-first pre-order of the visible nodes;
\* root lines have indent 0 and no parent id; every line with a parent id comes
\* after its parent's line and before the parent's next sibling, is indented one
\* more than its parent, and its parent's line is expanded; no child of a
\* collapsed node appears.
C27_FlatStructure ==
    /\ PreOrder(filteredLogTree(logTree, logSearchQuery), flatLogs)
    /\ PreOrder(filteredNetTree(netTree, netSearchQuery), flatNet)

\* a view three levels deep over a forest that also holds a collapsed node with
\* children
C27_Witness ==
    /\ \E i \in 1..Len(flatLogs) : flatLogs[i].indent = 2
    /\ \E i \in 1..Len(flatLogs) :
          /\ ~flatLogs[i].expanded
          /\ Len(findNodeById(logTree, flatLogs[i].nodeId).children) > 0

\* the patches of the four network events
EventPatches == RequestPatches \cup ResponsePatches \cup FinishedPatches \cup FailedPatches

\* C28: the eviction of a projection node from the network store neither removes
\* nor alters its record; records are removed only by clear; a later event for an
\* evicted request id merges into the retained record and re-creates the
\* projection node at the tail of the store.
C28_RecordsOutlive ==
    [][\A rid \in DOMAIN netById :
          /\ rid \notin DOMAIN netById' => netById' = <<>> /\ netTree' = <<>>
          /\ Roots(netTree, rid) # {} /\ Roots(netTree', rid) = {} /\ netTree' # <<>>
             => rid \in DOMAIN netById' /\ netById'[rid] = netById[rid]
          /\ Roots(netTree, rid) = {} /\ Roots(netTree', rid) # {}
             => /\ netTree'[Len(netTree')].id = NetId(rid)
                /\ rid \in DOMAIN netById'
                /\ \E patch \in EventPatches :
                       netById'[rid] = mergeRecord(netById[rid], patch)]_vars

\* request 1 was evicted by request 2 and came back with its response: its node
\* is the tail of the store, its record holds the method of its first event, and
\* the record of request 2 is still there
C28_Witness ==
    /\ appended.net = <<NetId(1), NetId(2), NetId(1)>>
    /\ netTree # <<>> /\ netTree[Len(netTree)].id = NetId(1)
    /\ DOMAIN netById = {1, 2}
    /\ netById[1]["method"] # <<>> /\ netById[1]["status"] # <<>>
    /\ Roots(netTree, 2) = {}

\* the text ends with one of the errors connectToTarget fails with
CarriesError(text) ==
    \E err \in ConnectErrors :
        /\ Len(text) > Len(err)
        /\ SubSeq(text, Len(text) - Len(err) + 1, Len(text)) = err

\* the step in which an attach in progress ends without a client
ConnectFails == connecting # NoTarget /\ connecting' = NoTarget /\ ~clientRef'

\* C30: when connecting to the selected target fails, exactly one text line
\* carrying the error is appended to the log store, the attach-in-progress guard
\* is released, the attached target is not set to the failed target, and the
\* session goes on accepting events and input: the next attach is accepted and
\* the prompts, the focus, the fetches in flight and the network store are as
\* they were.
C30_AttachFailure ==
    [][ConnectFails =>
          /\ Len(appended.log') = Len(appended.log) + 1
          /\ RootIds(logTree') =
                 Newest(RootIds(logTree) \o <<appended.log'[Len(appended.log')]>>,
                        LOG_MAX_LINES)
          /\ logTree'[Len(logTree')].kind = "text"
          /\ CarriesError(logTree'[Len(logTree')].text)
          /\ ~isAttachingRef'
          /\ attachedIndex' = attachedIndex
          /\ UNCHANGED <<uiVars, logSearchOpen, netSearchOpen, logFetch, logIsExpanding,
                         netVars>>]_vars

\* an attach to the second target failed after a detach: the last line of the log
\* carries the error, no target is attached and the next attach is accepted
C30_Witness ==
    /\ lastOp.op = "append" /\ lastOp.store = "log"
    /\ ~isAttachingRef /\ connecting = NoTarget
    /\ attachedIndex = NoTarget /\ ~clientRef
    /\ logTree # <<>> /\ CarriesError(logTree[Len(logTree)].text)
    /\ focus = "targets" /\ MainKeys

\* the children a completed fetch leaves on its node: the properties read at some
\* time, or the error line
FetchResult(children) ==
    \/ \E items \in PropertyLists, time \in 0..MaxNow : children = getProperties(items, time)
    \/ /\ Len(children) = 1
       /\ children[1].kind = "meta"
       /\ children[1].text = <<"[props] ! ", "err">>

\* the completion of the fetch f of the log store from `tree` to `next`
LateCompletion(f, tree, next) ==
    /\ ~logIsExpanding'
    /\ RootIds(next) = RootIds(tree)
    /\ IF hasNodeById(tree, f.nodeId)
       THEN /\ hasNodeById(next, f.nodeId)
            /\ ~findNodeById(next, f.nodeId).loading
            /\ FetchResult(findNodeById(next, f.nodeId).children)
       ELSE next = tree

\* C29: a fetch that was in flight when the session was detached or the store
\* was cleared still completes; if its target node is no longer in the forest the
\* forest is left unchanged, otherwise the result is applied to the node that
\* currently has that id; in both cases the in-flight guard is released.
C29_LateCompletion ==
    /\ (logFetch # {}) ~> (logFetch = {})
    /\ [][\A f \in logFetch : f \notin logFetch' =>
             \A tree \in {logTree} : \A next \in {logTree'} :
                 LateCompletion(f, tree, next)]_vars

\* the properties of a value arrived after the session was detached (expansions
\* start only while a client is held) and were applied to the node
C29_Witness ==
    /\ lastOp.op = "resolved"
    /\ ~clientRef /\ attachedIndex = NoTarget
    /\ logFetch = {} /\ ~logIsExpanding
    /\ \E i \in 1..Len(AllNodes(logTree)) :
          /\ AllNodes(logTree)[i].kind = "arg"
          /\ Len(AllNodes(logTree)[i].children) > 0
          /\ AllNodes(logTree)[i].children[1].kind = "prop"

\* a fetch completed after the store was cleared: the forest stays empty and the
\* guard is free
C29_WitnessCleared ==
    /\ lastOp.op \in {"resolved", "rejected"}
    /\ logTree = <<>> /\ logFetch = {} /\ ~logIsExpanding

\* the ids of the lines of a flattened sequence
FlatIds(flat) == {flat[i].nodeId : i \in 1..Len(flat)}

\* the ids whose node is expanded in one forest and collapsed in the other
Flipped(tree, next) ==
    {id \in NodeIds(tree) \cap NodeIds(next) :
        findNodeById(tree, id).expanded # findNodeById(next, id).expanded}

\* a toggle or a region collapse of `store` flips only lines of `flat`, and a
\* toggle only the line the resolved selection index points at
OnFlatOnly(store, tree, next, flat, sel) ==
    lastOp'.op \in {"toggle", "collapse"} /\ lastOp'.store = store
    => /\ Flipped(tree, next) \subseteq FlatIds(flat)
       /\ lastOp'.op = "toggle" /\ Flipped(tree, next) # {}
          => Flipped(tree, next) = {flat[selectedIndex(flat, sel) + 1].nodeId}

\* C31: toggle-expand and region-collapse only ever change a node that is
\* present in the store's current flattened sequence (the line the resolved
\* selection index points at); with a filter active they never expand or
\* collapse a node hidden by the filter.
C31_OnVisibleOnly ==
    [][/\ \A tree \in {logTree} : \A next \in {logTree'} : \A flat \in {flatLogs} :
              OnFlatOnly("log", tree, next, flat, selectedLogNodeId)
       /\ \A tree \in {netTree} : \A next \in {netTree'} : \A flat \in {flatNet} :
              OnFlatOnly("net", tree, next, flat, selectedNetNodeId)]_vars

\* what a list of nodes shows, ids and expansion state aside
Shown(nodes) ==
    [i \in 1..Len(nodes) |->
        [kind |-> nodes[i].kind, label |-> nodes[i].label, text |-> nodes[i].text,
         net |-> nodes[i].net]]

\* what the children of a request node show of its record: the lines and
\* sections in order (type, initiator and bytes lines, the request headers with
\* their count, the request body when there is one, the response with its status
\* line) and the request headers one by one
RecordView(children) ==
    [sections |-> Shown(children),
     headers |-> [i \in 1..Len(children) |->
                     IF children[i].net.role = "headers"
                     THEN Shown(children[i].children) ELSE <<>>]]

\* the step is a network event for rid: the record of rid is merged with one of
\* the patches of the protocol and no fetch completes
EventFor(rid) ==
    /\ netFetch' = netFetch
    /\ \E patch \in EventPatches : netById' = upsertNet(netById, rid, patch)

\* C32: whenever a request's projection node has a non-empty child list, after
\* every network event of any of the four kinds for that request the children
\* (type, initiator and bytes lines, request-header children and count, presence
\* of the request-body child, response status line) reflect the current merged
\* record.
C32_ChildrenTrackRecord ==
    [][\A rid \in Rids : EventFor(rid) =>
          \A next \in {netTree'} : \A byId \in {netById'} :
              \A k \in Roots(next, rid) :
                  Len(next[k].children) > 0
                  => RecordView(next[k].children)
                     = RecordView(buildNetChildren(byId, rid, 0).nodes)]_vars

\* the id of the line the resolved selection index points at, NoId on an empty view
ResolvedId(flat, sel) ==
    IF Len(flat) = 0 THEN NoId ELSE flat[selectedIndex(flat, sel) + 1].nodeId

\* the root of `tree` that is or holds the node `id` is a root of `next` too
RootKept(tree, next, id) ==
    \E i \in 1..Len(tree) :
        /\ tree[i].id = id \/ hasNodeById(tree[i].children, id)
        /\ \E j \in 1..Len(next) : next[j].id = tree[i].id

\* with follow off in `st`, an event that takes the view from `flat` to
\* `flatNext` leaves the resolved selection on the node it was on, unless the
\* root of that node was evicted
Parked(st, stNext, flat, flatNext) ==
    (~st.follow /\ Len(flat) > 0 /\ RootKept(st.tree, stNext.tree, ResolvedId(flat, st.sel)))
    => ResolvedId(flatNext, stNext.sel) = ResolvedId(flat, st.sel)

\* the step appends to the log store
LogEventStep == lastOp'.op = "append" /\ lastOp'.store = "log"

\* the step is one of the four network events
NetEventStep ==
    \E rid \in Rids :
        \/ \E patch \in RequestPatches : NetworkRequest(rid, patch)
        \/ \E patch \in ResponsePatches : NetworkResponse(rid, patch)
        \/ \E patch \in FinishedPatches : NetworkFinished(rid, patch)
        \/ \E patch \in FailedPatches : NetworkFailed(rid, patch)

\* C33: while a store's followTail is false, the arrival of a protocol event (a
\* log append, or a network event that refreshes or rebuilds a projection node)
\* leaves the resolved selection on the same node, unless that node was removed
\* by FIFO eviction.
C33_ParkedSelection ==
    [][/\ LogEventStep =>
             \A st \in {LogSt} : \A stNext \in {LogSt'} :
             \A flat \in {Flat("log", st)} : \A flatNext \in {Flat("log", stNext)} :
                 Parked(st, stNext, flat, flatNext)
       /\ NetEventStep =>
             \A st \in {NetSt} : \A stNext \in {NetSt'} :
             \A flat \in {Flat("net", st)} : \A flatNext \in {Flat("net", stNext)} :
                 Parked(st, stNext, flat, flatNext)]_vars

\* the node shows the error line of a failed fetch and is collapsed
ShowsError(n) ==
    /\ ~n.expanded /\ ~n.loading
    /\ Len(n.children) = 1
    /\ n.children[1].kind = "meta"
    /\ Len(n.children[1].text) > 0
    /\ n.children[1].text[1] \in {"[props] ! ", "[body] ! "}

\* a toggle of `store` that is not dropped by the in-flight guard and whose
\* target, the selected node, shows the error line of a failed fetch
ExpandsFailed(store, tree, sel) ==
    /\ lastOp'.op = "toggle" /\ lastOp'.store = store /\ ~lastOp'.dropped
    /\ hasNodeById(tree, sel)
    /\ ShowsError(findNodeById(tree, sel))

\* C34: in either store, after a fetch for a node has failed and the node shows
\* its error meta child, the next expansion of that node (collapse, then expand)
\* issues a new fetch rather than treating the error child as cached content.
C34_FailedFetchRetried ==
    [][/\ ExpandsFailed("log", logTree, selectedLogNodeId) => lastOp'.fetched
       /\ ExpandsFailed("net", netTree, selectedNetNodeId) => lastOp'.fetched]_vars

\* the same for the network store alone
NetFailedFetchRetried ==
    [][ExpandsFailed("net", netTree, selectedNetNodeId) => lastOp'.fetched]_vars

\* some node of the forest is one of the loading lines
AnyLoadingLine(tree) ==
    \E i \in 1..Len(AllNodes(tree)) :
        /\ AllNodes(tree)[i].kind = "meta"
        /\ AllNodes(tree)[i].text \in {<<"(loading properties...)">>,
                                        <<"(loading response body...)">>}

\* C35: in every reachable state a node with loading = true, or one showing a
\* loading meta child, exists in a store only while that store's in-flight guard
\* is held; when the guard is free no node of that store is loading.
C35_LoadingImpliesInFlight ==
    /\ (AnyLoading(logTree) \/ AnyLoadingLine(logTree)) => logIsExpanding
    /\ (AnyLoading(netTree) \/ AnyLoadingLine(netTree)) => netIsExpanding

\* a body fetch is in flight and its node shows the loading line, while the log
\* store, whose guard is free, has no loading node
C35_Witness ==
    /\ netIsExpanding /\ AnyLoading(netTree) /\ AnyLoadingLine(netTree)
    /\ ~logIsExpanding

\* the requests whose node was created by an event since the last clear
SeenSinceClear == {r \in Rids : \E i \in 1..Len(appended.net) : appended.net[i] = NetId(r)}

\* C36: after clearNetwork the record map contains only records created by
\* protocol events received after the clear; the completion of a body fetch that
\* was in flight at the time of the clear does not put a record back into the map.
C36_ClearEmptiesRecords == DOMAIN netById \subseteq SeenSinceClear

\* the view state of a store after a clear
Cleared(st) ==
    /\ st.tree = <<>> /\ st.sel = NoId /\ st.top = 0 /\ st.follow /\ st.query = <<>>

\* C37: after clear on either store, that store's forest is empty, its selection
\* is unset, scrollTop is 0, followTail is true and its search query is empty,
\* and the other store is unchanged; the id counter of the store is not reset,
\* so that node ids issued after the clear do not repeat earlier ones.
C37_ClearResets ==
    [][/\ ClearLogs =>
             /\ \A st \in {LogSt'} : Cleared(st)
             /\ logNextNodeId' = logNextNodeId
             /\ UNCHANGED netVars
       /\ ClearNetwork =>
             /\ \A st \in {NetSt'} : Cleared(st)
             /\ netNextNodeId' = netNextNodeId
             /\ UNCHANGED logVars]_vars

\* C38: in every settled state (no attach in progress) the attached-target index
\* is non-null only if a client connection is currently held; in particular,
\* after an attach attempt to a second target fails, the previous connection
\* having been closed first, the session is not shown as attached.
C38_AttachedMatchesClient ==
    (~isAttachingRef /\ attachedIndex # NoTarget) => clientRef

\* RightPanel: the viewport over `len` lines scrolled to `top`
viewport(len, top) ==
    IF len = 0 THEN [start |-> 0, endExclusive |-> 0]
    ELSE LET start == clamp(top, 0, Max(0, len - visibleLogLines(Ui)))
         IN [start |-> start,
             endExclusive |-> clamp(start + visibleLogLines(Ui), 0, len)]

\* the selection index idx lies in the window of visibleLines lines at top, and
\* the rendered window is that window cut to the view of `len` lines
Windowed(len, top, idx) ==
    len > 0
    => /\ top <= idx /\ idx < top + visibleLogLines(Ui)
       /\ \A v \in {viewport(len, top)} :
             /\ v.start = top
             /\ v.endExclusive - v.start <= visibleLogLines(Ui)
             /\ 0 <= v.start /\ v.start <= idx /\ idx < v.endExclusive
             /\ v.endExclusive <= len

\* C39: whenever the right panel is focused and a tab with a non-empty flattened
\* sequence is active, once recomputation has settled the resolved selection
\* index lies within the rendered window [scrollTop, scrollTop + visibleLines),
\* and the rendered window contains at most visibleLines lines, all within the
\* flattened sequence.
C39_SelectionInView ==
    /\ (focus = "right" /\ rightTab = "logs")
       => \A flat \in {flatLogs} :
              Windowed(Len(flat), logScrollTop, selectedIndex(flat, selectedLogNodeId))
    /\ (focus = "right" /\ rightTab = "network")
       => \A flat \in {flatNet} :
              Windowed(Len(flat), netScrollTop, selectedIndex(flat, selectedNetNodeId))

\* C40: at most one of the eval prompt, the log search prompt and the network
\* search prompt is open at a time, and while a search prompt is open the active
\* tab is the tab of that prompt's store and the right panel has focus, also
\* when an attach started earlier completes while the prompt is open.
C40_PromptConsistency ==
    /\ ~(evalOpen /\ logSearchOpen) /\ ~(evalOpen /\ netSearchOpen)
    /\ ~(logSearchOpen /\ netSearchOpen)
    /\ logSearchOpen => focus = "right" /\ rightTab = "logs"
    /\ netSearchOpen => focus = "right" /\ rightTab = "network"

====
